---- MODULE Spec2Model ----
(***************************************************************************)
(* Network-device scan pipeline of wifi-analyzer:                          *)
(*   - the scan coordinator of App (start_device_scan,                     *)
(*     check_device_scan_progress, cancel_device_scan) together with the   *)
(*     scan thread it spawns, the tokio progress channel, the forwarder    *)
(*     task, the std channel and the SCANNED_DEVICES cell      (src/app.rs)*)
(*   - the chunked port scanner             (src/network_map/port_scan.rs) *)
(*   - ARP-cache discovery                  (src/network_map/discovery.rs) *)
(***************************************************************************)
EXTENDS Integers, Sequences, FiniteSets, TLC

\* ------------------------------------------------------------------------
\* Bounds of the model
\* ------------------------------------------------------------------------
\* number of scan threads start_device_scan may spawn in one behaviour
MaxScans == 2
\* largest number of devices a discovery returns in the coordinator model
MaxDevices == 1
\* number of progress events the environment delivers in SpecCoord
MaxEvents == 6
\* longest device list scanned on a network that answers
MaxScanDevices == 2
\* longest device list scanned on a silent network
NumDevices == 25
\* longest port list of the range 0..MaxPortListLen given to scan_device_ports
MaxPortListLen == 101
\* most lines of an ARP table
MaxArpLines == 3
\* pieces of text in a banner
MaxFragments == 2
\* longest port list handed to scan_device_ports with its ports spelled out
MaxProbedPorts == 3
\* number of upsert calls made on the database
MaxDbCalls == 4

\* ------------------------------------------------------------------------
\* Values
\* ------------------------------------------------------------------------
\* Option<T>: None, Some(x), and the value of a Some
None == <<>>
Some(x) == <<x>>
Unwrap(o) == o[1]

\* Result<T, E>: Ok(v) and Err
Ok(v) == [ok |-> TRUE, value |-> v]
Err == [ok |-> FALSE]

Min(a, b) == IF a <= b THEN a ELSE b

\* capacity of the tokio progress channel
ProgressChannelCapacity == 10

\* const COMMON_PORTS
COMMON_PORTS ==
    <<21, 22, 23, 25, 53, 80, 443, 139, 445, 548, 554, 3389, 5000, 5001,
      8080, 8443, 9100, 62078, 8008, 8009, 3000, 3001, 8000, 8001, 11434,
      9229, 8501>>

\* COMMON_PORTS.len()
CommonPortsLen == Len(COMMON_PORTS)

\* const MAX_CONCURRENT_PORTS, MAX_CONCURRENT_DEVICES
MAX_CONCURRENT_PORTS == 50
MAX_CONCURRENT_DEVICES == 10

\* deep_scan_device: the number of ports 1..=65535 and the chunk it passes
\* to scan_device_ports
ALL_PORTS_COUNT == 65535
DEEP_SCAN_CHUNK == 2000

ScanPhase == {"Discovery", "PortScan", "Identification", "Complete"}

\* the ordinal the coordinator gives a phase
PhaseOrd(phase) ==
    CASE phase = "Discovery"      -> 0
      [] phase = "PortScan"       -> 1
      [] phase = "Identification" -> 2
      [] phase = "Complete"       -> 3

\* struct ScanProgress
ScanProgress(phase, devices_found, current_device, ports_scanned, total_ports) ==
    [phase          |-> phase,
     devices_found  |-> devices_found,
     current_device |-> current_device,
     ports_scanned  |-> ports_scanned,
     total_ports    |-> total_ports]

\* the event discover_devices sends first and last
DiscoveryEvent(n) == ScanProgress("Discovery", n, None, 0, 0)

PortScanEvent_OneDevice(devices_count, mac, scanned_ports) ==
    ScanProgress("PortScan", devices_count, Some(mac), scanned_ports,
                 CommonPortsLen)

\* the event scan_devices_ports sends after a device: devices_count devices,
\* the device's label, the counter scanned
PortScanEvent(devices_count, mac, scanned_ports) ==
    ScanProgress("PortScan", devices_count, Some(mac), scanned_ports,
                 CommonPortsLen * devices_count)

IdentificationEvent_Early(n) == ScanProgress("Discovery", n, None, 0, 0)

\* the event the scan thread sends before identify_all_devices
IdentificationEvent(n) == ScanProgress("Identification", n, None, 0, 0)

\* the event the scan thread sends last
CompleteEvent(n) == ScanProgress("Complete", n, None, 0, 0)

\* Device::new (without the timestamps and is_online)
Device(mac, ip) ==
    [mac_address     |-> mac,
     ip_address      |-> ip,
     hostname        |-> None,
     vendor          |-> None,
     device_type     |-> "Unknown",
     custom_name     |-> None,
     services        |-> <<>>,
     detected_agents |-> <<>>]

\* the progress start_device_scan installs
InitialProgress == ScanProgress("Discovery", 0, None, 0, 0)

\* a device list, tagged with the scan thread that produced it (0: the empty
\* Vec of App::new)
DeviceList(scan, len) == [scan |-> scan, len |-> len]

ScanIds == 1..MaxScans

\* ------------------------------------------------------------------------
\* State
\* ------------------------------------------------------------------------
VARIABLES
    device_scan_progress,  \* App.device_scan_progress: None or a ScanProgress
    device_scan_receiver,  \* App.device_scan_receiver: None or the id of the
                           \* scan whose std channel it reads
    devices,               \* App.devices
    status_message,        \* App.status_message: None or the count reported
    SCANNED_DEVICES,       \* the static cell: None or a device list
    thread,                \* per scan id: the scan thread: its position, the
                           \* outcome of discover_devices, the number n of
                           \* devices and the number k of devices scanned
    progress_chan,         \* per scan id: the tokio channel progress_tx -> progress_rx
    std_chan,              \* per scan id: the std channel tx -> rx
    emitted,               \* history: per scan id, the events the thread sent
    log,                   \* history: the events the receiver of the current
                           \* scan took, with the progress before and after
    cancelled,             \* history: ids of the scans cancel_device_scan ended
    discarded,             \* history: the events still queued when the
                           \* receiver of the current scan was dropped
    delivered              \* SpecCoord: number of events the environment sent

VARIABLES
    \* scan_devices_ports
    scan_devices,          \* devices: &mut [Device]
    network,               \* "live": hosts may answer; "silent": every
                           \* connect times out
    chunk_start,           \* number of devices in the chunks already done
    handles,               \* handles: Vec<(mac, JoinHandle)> of the chunk
    task,                  \* per device index: the spawned scan_device_ports
                           \* task: status, per-port connect outcomes, result
    awaited,               \* number of handles of the chunk already awaited
    scanned,               \* the counter scanned
    scan_events,           \* the ScanProgress values sent to progress_tx
    scan_result,           \* None until scan_devices_ports returns, then its
                           \* Result
    completion             \* history: None where it is not kept, or
                           \* Some(the device indices in the order in which
                           \* their tasks finished)

scanVars == <<scan_devices, network, chunk_start, handles, task, awaited,
              scanned, scan_events, scan_result, completion>>

VARIABLES
    \* scan_device_ports, tasks counted
    port_count,            \* ports.len()
    port_chunk_start,      \* number of ports in the chunks already done
    port_spawned,          \* scan_port tasks spawned in the current chunk
    port_finished,         \* spawned tasks that have finished and whose
                           \* handle is not awaited yet
    port_awaited,          \* handles of the current chunk already awaited
    port_returned          \* scan_device_ports has returned

portVars == <<port_count, port_chunk_start, port_spawned, port_finished,
              port_awaited, port_returned>>

VARIABLES
    \* discover_devices
    arp_table,             \* output of `arp -a`: "Err" or the (ip, mac) lines
    route_table,           \* get_default_gateway: "Err", None or Some(ip)
    local_info,            \* get_local_network_info: "Err" or Some(ip)
    discovered             \* None until discover_devices returns, then its
                           \* Result and the events it sent

discVars == <<arp_table, route_table, local_info, discovered>>

VARIABLES
    \* lookup_vendor
    lookup_mac,            \* mac: &str
    lookup_result,         \* None until lookup_vendor returns, then
                           \* Some(its Option)
    \* scan_port on a stream that connected
    probe_port,            \* port
    probe_banner,          \* what the stream sends within BANNER_TIMEOUT:
                           \* None or Some(text)
    probe_service,         \* None until scan_port returns, then Some(Service)
    \* the pipeline on one device: Device::new, scan_device_ports,
    \* identify_device
    ident_trace,           \* the device after each step, oldest first
    ident_step             \* "new", "scanned", or the number of
                           \* identify_device calls made

identVars == <<lookup_mac, lookup_result, probe_port, probe_banner,
               probe_service, ident_trace, ident_step>>

VARIABLES
    \* scan_device_ports on a port list
    port_list,             \* ports: &[u16]
    port_list_result       \* None until scan_device_ports returns, then its
                           \* Result

listVars == <<port_list, port_list_result>>

VARIABLES
    \* the devices and device_services tables of Database
    db_devices,            \* the rows of devices
    db_services,           \* the rows of device_services
    db_seq,                \* the next value of seq_devices_id
    db_log                 \* history: the calls made, oldest first, each
                           \* with its arguments and what it returned

dbVars == <<db_devices, db_services, db_seq, db_log>>

VARIABLES
    \* the device view of App
    selected_device_index, \* App.selected_device_index
    show_rename_dialog,    \* App.show_rename_dialog
    rename_input,          \* App.rename_input
    custom_names,          \* custom_name of the devices of App.devices, by
                           \* position; the device at position m has MAC m
    db,                    \* App.db: None, or Some(the custom_name column of
                           \* the devices table by MAC: None where there is
                           \* no row, else Some(the column))
    panicked,              \* the main thread has panicked
    renamed                \* history: by MAC, None or Some(the name the last
                           \* confirm_rename gave the device)

uiVars == <<selected_device_index, show_rename_dialog, rename_input,
            custom_names, db, panicked, renamed>>

coordVars == <<device_scan_progress, device_scan_receiver, devices,
               status_message, SCANNED_DEVICES, thread, progress_chan,
               std_chan, emitted, log, cancelled, discarded, delivered>>

vars == <<coordVars, scanVars, portVars, discVars, identVars, listVars,
          dbVars, uiVars>>

\* ------------------------------------------------------------------------
\* check_device_scan_progress
\* ------------------------------------------------------------------------
IsStale_Weak(current, new_phase) ==
    /\ current # None
    /\ PhaseOrd(new_phase) + 1 < PhaseOrd(Unwrap(current).phase)

\* is_stale of check_device_scan_progress
IsStale(current, new_phase) ==
    /\ current # None
    /\ PhaseOrd(new_phase) < PhaseOrd(Unwrap(current).phase)

\* the coordinator's fields as one record, for the receive loop
CoordState ==
    [progress |-> device_scan_progress,
     receiver |-> device_scan_receiver,
     devices  |-> devices,
     status   |-> status_message,
     cell     |-> SCANNED_DEVICES,
     log      |-> log]

LogEntry(st, ev, after) ==
    [ev |-> ev, rx |-> st.receiver, before |-> st.progress,
     after |-> after.progress, installed |-> after.devices]

OnComplete_KeepListening(st) ==
    LET taken == IF st.cell # None THEN Unwrap(st.cell) ELSE st.devices
    IN  [st EXCEPT !.devices  = taken,
                   !.cell     = None,
                   !.status   = Some(taken.len)]

\* the Complete branch of the receive loop
OnComplete(st) ==
    LET taken == IF st.cell # None THEN Unwrap(st.cell) ELSE st.devices
    IN  [st EXCEPT !.devices  = taken,
                   !.cell     = None,
                   !.progress = None,
                   !.receiver = None,
                   !.status   = Some(taken.len)]

\* the rest of the loop body
OnProgress(st, ev) ==
    IF IsStale(st.progress, ev.phase) THEN st
    ELSE [st EXCEPT !.progress = Some(ev)]

\* one iteration of the receive loop
ProcessEvent(st, ev) ==
    LET after == IF ev.phase = "Complete" THEN OnComplete(st)
                 ELSE OnProgress(st, ev)
    IN  [after EXCEPT !.log = Append(st.log, LogEntry(st, ev, after))]

RECURSIVE ReceiveLoop(_, _)
\* while let Ok(progress) = rx.try_recv() { ... }, over the queued events q
ReceiveLoop(st, q) ==
    IF q = <<>> \/ st.receiver = None THEN st
    ELSE ReceiveLoop(ProcessEvent(st, Head(q)), Tail(q))

\* COALESCE(?, column) with the value passed and the value stored
Coalesce_New(new, old) == new

Coalesce(new, old) == IF new # None THEN new ELSE old

\* persist_devices: upsert_device for every device of the list installed,
\* custom_name written as COALESCE(new, stored); nothing without a database
persist_devices(names) ==
    IF db = None THEN None
    ELSE Some([m \in DOMAIN Unwrap(db) |->
                 IF m > Len(names) THEN Unwrap(db)[m]
                 ELSE IF Unwrap(db)[m] = None THEN Some(names[m])
                 ELSE Some(Coalesce(names[m], Unwrap(Unwrap(db)[m])))])

check_device_scan_progress ==
    /\ device_scan_receiver # None
    /\ std_chan[Unwrap(device_scan_receiver)] # <<>>
    /\ LET rx == Unwrap(device_scan_receiver)
           st == ReceiveLoop(CoordState, std_chan[rx])
       IN  /\ device_scan_progress' = st.progress
           /\ device_scan_receiver' = st.receiver
           /\ devices' = st.devices
           /\ status_message' = st.status
           /\ SCANNED_DEVICES' = st.cell
           /\ log' = st.log
           /\ std_chan' = [std_chan EXCEPT ![rx] = <<>>]
           /\ discarded' = IF st.receiver = None
                           THEN SubSeq(std_chan[rx], Len(st.log) - Len(log) + 1,
                                       Len(std_chan[rx]))
                           ELSE discarded
           \* self.devices = devices: the records the scan built with
           \* Device::new, custom_name None; then self.persist_devices()
           /\ LET names == [m \in 1..st.devices.len |-> None]
              IN  IF SCANNED_DEVICES # None /\ st.cell = None
                  THEN /\ custom_names' = names
                       /\ db' = persist_devices(names)
                  ELSE UNCHANGED <<custom_names, db>>
    /\ UNCHANGED <<thread, progress_chan, emitted, cancelled, delivered>>
    /\ UNCHANGED <<selected_device_index, show_rename_dialog, rename_input,
                   panicked, renamed>>
    /\ UNCHANGED <<scanVars, portVars, discVars, identVars, listVars,
                   dbVars>>

\* ------------------------------------------------------------------------
\* start_device_scan, cancel_device_scan
\* ------------------------------------------------------------------------
\* the id of the next thread to spawn
NextScanId == Cardinality({i \in ScanIds : thread[i].pc # "unspawned"}) + 1

\* the guard of start_device_scan
AlreadyScanning == device_scan_progress # None

start_device_scan ==
    /\ ~AlreadyScanning
    /\ NextScanId \in ScanIds
    /\ device_scan_receiver' = Some(NextScanId)
    /\ thread' = [thread EXCEPT ![NextScanId].pc = "spawned"]
    /\ device_scan_progress' = Some(InitialProgress)
    /\ log' = <<>>
    /\ discarded' = <<>>
    /\ UNCHANGED <<devices, status_message, SCANNED_DEVICES, progress_chan,
                   std_chan, emitted, cancelled, delivered>>
    /\ UNCHANGED <<scanVars, portVars, discVars, identVars, listVars,
                   dbVars, uiVars>>

cancel_device_scan ==
    /\ device_scan_progress # None \/ device_scan_receiver # None
    /\ device_scan_progress' = None
    /\ device_scan_receiver' = None
    /\ cancelled' = IF device_scan_receiver # None
                    THEN cancelled \cup {Unwrap(device_scan_receiver)} ELSE cancelled
    /\ std_chan' = IF device_scan_receiver # None
                   THEN [std_chan EXCEPT ![Unwrap(device_scan_receiver)] = <<>>]
                   ELSE std_chan
    /\ discarded' = IF device_scan_receiver # None
                    THEN std_chan[Unwrap(device_scan_receiver)] ELSE discarded
    /\ UNCHANGED <<devices, status_message, SCANNED_DEVICES, thread,
                   progress_chan, emitted, log, delivered>>
    /\ UNCHANGED <<scanVars, portVars, discVars, identVars, listVars,
                   dbVars, uiVars>>

\* ------------------------------------------------------------------------
\* The scan thread spawned by start_device_scan
\* ------------------------------------------------------------------------
\* progress_tx.send(ev).await of thread id: it waits while the channel holds
\* ProgressChannelCapacity events
Send(id, ev) ==
    /\ Len(progress_chan[id]) < ProgressChannelCapacity
    /\ progress_chan' = [progress_chan EXCEPT ![id] = Append(@, ev)]
    /\ emitted' = [emitted EXCEPT ![id] = Append(@, ev)]

\* discover_devices: the first Discovery event
ThreadDiscoveryStart(id) ==
    /\ thread[id].pc = "spawned"
    /\ Send(id, DiscoveryEvent(0))
    /\ thread' = [thread EXCEPT ![id].pc = "discovering"]
    /\ UNCHANGED <<device_scan_progress, device_scan_receiver, devices,
                   status_message, SCANNED_DEVICES, std_chan, log, cancelled,
                   discarded, delivered>>
    /\ UNCHANGED <<scanVars, portVars, discVars, identVars, listVars,
                   dbVars, uiVars>>

\* discover_devices returns Err: the thread prints the error and returns
ThreadDiscoveryFail(id) ==
    /\ thread[id].pc = "discovering"
    /\ thread' = [thread EXCEPT ![id].pc = "failed", ![id].discovery = "Err"]
    /\ UNCHANGED <<device_scan_progress, device_scan_receiver, devices,
                   status_message, SCANNED_DEVICES, progress_chan, std_chan,
                   emitted, log, cancelled, discarded, delivered>>
    /\ UNCHANGED <<scanVars, portVars, discVars, identVars, listVars,
                   dbVars, uiVars>>

\* discover_devices returns Ok(n devices) after the second Discovery event
ThreadDiscoveryFound(id, n) ==
    /\ thread[id].pc = "discovering"
    /\ Send(id, DiscoveryEvent(n))
    /\ thread' = [thread EXCEPT ![id] = [pc |-> "portscan", discovery |-> "Ok",
                                          n |-> n, k |-> 0]]
    /\ UNCHANGED <<device_scan_progress, device_scan_receiver, devices,
                   status_message, SCANNED_DEVICES, std_chan, log, cancelled,
                   discarded, delivered>>
    /\ UNCHANGED <<scanVars, portVars, discVars, identVars, listVars,
                   dbVars, uiVars>>

\* scan_devices_ports: the event after the next device
ThreadPortScan(id) ==
    /\ thread[id].pc = "portscan"
    /\ thread[id].k < thread[id].n
    /\ Send(id, PortScanEvent(thread[id].n, thread[id].k + 1,
                              (thread[id].k + 1) * CommonPortsLen))
    /\ thread' = [thread EXCEPT ![id].k = @ + 1]
    /\ UNCHANGED <<device_scan_progress, device_scan_receiver, devices,
                   status_message, SCANNED_DEVICES, std_chan, log, cancelled,
                   discarded, delivered>>
    /\ UNCHANGED <<scanVars, portVars, discVars, identVars, listVars,
                   dbVars, uiVars>>

\* discover_devices finds up to MaxDevices devices
ThreadDiscoveryDone(id) == \E n \in 0..MaxDevices : ThreadDiscoveryFound(id, n)

\* Phase 3: the Identification event, then identify_all_devices
ThreadIdentify(id) ==
    /\ thread[id].pc = "portscan"
    /\ thread[id].k = thread[id].n
    /\ Send(id, IdentificationEvent(thread[id].n))
    /\ thread' = [thread EXCEPT ![id].pc = "identified"]
    /\ UNCHANGED <<device_scan_progress, device_scan_receiver, devices,
                   status_message, SCANNED_DEVICES, std_chan, log, cancelled,
                   discarded, delivered>>
    /\ UNCHANGED <<scanVars, portVars, discVars, identVars, listVars,
                   dbVars, uiVars>>

\* the Complete event
ThreadComplete(id) ==
    /\ thread[id].pc = "identified"
    /\ Send(id, CompleteEvent(thread[id].n))
    /\ thread' = [thread EXCEPT ![id].pc = "store"]
    /\ UNCHANGED <<device_scan_progress, device_scan_receiver, devices,
                   status_message, SCANNED_DEVICES, std_chan, log, cancelled,
                   discarded, delivered>>
    /\ UNCHANGED <<scanVars, portVars, discVars, identVars, listVars,
                   dbVars, uiVars>>

\* SCANNED_DEVICES.lock().unwrap().replace(devices)
ThreadStore(id) ==
    /\ thread[id].pc = "store"
    /\ SCANNED_DEVICES' = Some(DeviceList(id, thread[id].n))
    /\ thread' = [thread EXCEPT ![id].pc = "stored"]
    /\ UNCHANGED <<device_scan_progress, device_scan_receiver, devices,
                   status_message, progress_chan, std_chan, emitted, log,
                   cancelled, discarded, delivered>>
    /\ UNCHANGED <<scanVars, portVars, discVars, identVars, listVars,
                   dbVars, uiVars>>

\* block_on returns and the runtime is dropped: the forwarder task stops and
\* what the tokio channel still holds is lost
ThreadExit(id) ==
    /\ thread[id].pc \in {"stored", "failed"}
    /\ thread' = [thread EXCEPT ![id].pc = "done"]
    /\ progress_chan' = [progress_chan EXCEPT ![id] = <<>>]
    /\ UNCHANGED <<device_scan_progress, device_scan_receiver, devices,
                   status_message, SCANNED_DEVICES, std_chan, emitted, log,
                   cancelled, discarded, delivered>>
    /\ UNCHANGED <<scanVars, portVars, discVars, identVars, listVars,
                   dbVars, uiVars>>

\* a forwarder that takes events only while the receiver of the std channel
\* is there
Forward_WhileListening(id) ==
    /\ thread[id].pc \notin {"unspawned", "done"}
    /\ progress_chan[id] # <<>>
    /\ device_scan_receiver = Some(id)
    /\ progress_chan' = [progress_chan EXCEPT ![id] = Tail(@)]
    /\ std_chan' = [std_chan EXCEPT ![id] = Append(@, Head(progress_chan[id]))]
    /\ UNCHANGED <<device_scan_progress, device_scan_receiver, devices,
                   status_message, SCANNED_DEVICES, thread, emitted, log,
                   cancelled, discarded, delivered>>
    /\ UNCHANGED <<scanVars, portVars, discVars, identVars, listVars,
                   dbVars, uiVars>>

\* a forwarder that takes the newest event of the channel first
Forward_NewestFirst(id) ==
    /\ thread[id].pc \notin {"unspawned", "done"}
    /\ progress_chan[id] # <<>>
    /\ progress_chan' = [progress_chan EXCEPT
                            ![id] = SubSeq(@, 1, Len(@) - 1)]
    /\ std_chan' = IF device_scan_receiver = Some(id)
                   THEN [std_chan EXCEPT
                            ![id] = Append(@, progress_chan[id][Len(progress_chan[id])])]
                   ELSE std_chan
    /\ UNCHANGED <<device_scan_progress, device_scan_receiver, devices,
                   status_message, SCANNED_DEVICES, thread, emitted, log,
                   cancelled, discarded, delivered>>
    /\ UNCHANGED <<scanVars, portVars, discVars, identVars, listVars,
                   dbVars, uiVars>>

\* the forwarder task: progress_rx.recv() then tx_clone.send(), whose error
\* (receiver dropped) is ignored
Forward(id) ==
    /\ thread[id].pc \notin {"unspawned", "done"}
    /\ progress_chan[id] # <<>>
    /\ progress_chan' = [progress_chan EXCEPT ![id] = Tail(@)]
    /\ std_chan' = IF device_scan_receiver = Some(id)
                   THEN [std_chan EXCEPT ![id] = Append(@, Head(progress_chan[id]))]
                   ELSE std_chan
    /\ UNCHANGED <<device_scan_progress, device_scan_receiver, devices,
                   status_message, SCANNED_DEVICES, thread, emitted, log,
                   cancelled, discarded, delivered>>
    /\ UNCHANGED <<scanVars, portVars, discVars, identVars, listVars,
                   dbVars, uiVars>>

\* ------------------------------------------------------------------------
\* scan_port, scan_device_ports (results)
\* ------------------------------------------------------------------------
\* identify_service without a banner: the port table
IdentifyService(port) ==
    CASE port = 21 -> Some("FTP")
      [] port = 22 -> Some("SSH")
      [] port = 23 -> Some("Telnet")
      [] port = 25 -> Some("SMTP")
      [] port = 53 -> Some("DNS")
      [] port = 80 -> Some("HTTP")
      [] port = 443 -> Some("HTTPS")
      [] port \in {139, 445} -> Some("SMB")
      [] port = 548 -> Some("AFP")
      [] port = 554 -> Some("RTSP")
      [] port = 3389 -> Some("RDP")
      [] port \in {5000, 5001} -> Some("Synology")
      [] port \in {8080, 8443} -> Some("HTTP Alt")
      [] port = 9100 -> Some("Printer")
      [] port = 62078 -> Some("Apple Device")
      [] port \in {8008, 8009} -> Some("Chromecast")
      [] port = 11434 -> Some("Ollama")
      [] port = 9229 -> Some("Node Debug")
      [] port = 8501 -> Some("Streamlit")
      [] port \in {3000, 3001} -> Some("Dev Server")
      [] port \in {8000, 8001} -> Some("Python Server")
      [] port = 18789 -> Some("OpenClaw Gateway")
      [] port = 18793 -> Some("OpenClaw Canvas")
      [] OTHER -> None

\* detect_agent without a banner: the port table
DetectAgent(port) ==
    CASE port = 11434 -> Some("Ollama")
      [] port = 8501 -> Some("Aider (Streamlit)")
      [] port \in {18789, 18793} -> Some("OpenClaw")
      [] OTHER -> None

\* the Service scan_port builds for a port that accepted the connection and
\* sent no banner within BANNER_TIMEOUT
Service(port) ==
    [port           |-> port,
     protocol       |-> "Tcp",
     state          |-> "Open",
     service_name   |-> IdentifyService(port),
     banner         |-> None,
     detected_agent |-> DetectAgent(port)]

\* what one connect attempt can do: the address does not parse, the
\* connection is accepted, it is refused, or CONNECT_TIMEOUT passes
ConnectOutcome == {"addr_error", "connected", "refused", "timeout"}

\* scan_port
ScanPort(port, outcome) ==
    CASE outcome = "addr_error" -> Err
      [] outcome = "connected"  -> Ok(Some(Service(port)))
      [] outcome = "refused"    -> Ok(None)
      [] outcome = "timeout"    -> Ok(None)

RECURSIVE AwaitPortHandles(_, _, _, _)
\* the await loop of scan_device_ports over the handles i..last of a chunk
AwaitPortHandles(ports, probes, i, last) ==
    IF i > last THEN <<>>
    ELSE LET r == ScanPort(ports[i], probes[i])
         IN  (IF r.ok /\ r.value # None THEN <<Unwrap(r.value)>> ELSE <<>>)
                \o AwaitPortHandles(ports, probes, i + 1, last)

RECURSIVE PortChunks(_, _, _)
\* for chunk in ports.chunks(MAX_CONCURRENT_PORTS), from the chunk at start
PortChunks(ports, probes, start) ==
    IF start >= Len(ports) THEN <<>>
    ELSE AwaitPortHandles(ports, probes, start + 1,
                          Min(start + MAX_CONCURRENT_PORTS, Len(ports)))
            \o PortChunks(ports, probes, start + MAX_CONCURRENT_PORTS)

\* scan_device_ports, given the outcome of the connect to each port
ScanDevicePorts(ports, probes) == Ok(PortChunks(ports, probes, 0))

\* ------------------------------------------------------------------------
\* scan_devices_ports
\* ------------------------------------------------------------------------
\* the device lists of this part carry numbers for MAC and IP addresses

\* the MAC addresses of the short device lists
MacPool == {1, 2}

\* the ports on which a host of a live network may accept a connection
LivePorts == {22, 80}

\* the connect outcomes of one device scan, port by port: on a live network
\* any outcome on the live ports with every other port refusing, a host that
\* answers nothing, or an address that does not parse; on a silent network
\* only timeouts
ProbeVectors(net) ==
    IF net = "silent"
    THEN {[i \in 1..CommonPortsLen |-> "timeout"]}
    ELSE {[i \in 1..CommonPortsLen |->
              IF COMMON_PORTS[i] \in LivePorts THEN live[COMMON_PORTS[i]]
              ELSE "refused"] :
             live \in [LivePorts -> {"connected", "refused", "timeout"}]}
         \cup {[i \in 1..CommonPortsLen |-> "timeout"]}
         \cup {[i \in 1..CommonPortsLen |-> "addr_error"]}

\* what handle.await can return for a device task: Ok(scan_device_ports(..)),
\* or a JoinError of a task that ended without a result
TaskResults(net) ==
    {[probes |-> v, result |-> Ok(ScanDevicePorts(COMMON_PORTS, v))] :
        v \in ProbeVectors(net)}
    \cup (IF net = "silent" THEN {}
          ELSE {[probes |-> [i \in 1..CommonPortsLen |-> "none"], result |-> Err]})

ChunkLen_Whole == Len(scan_devices) - chunk_start

\* the length of the current chunk of devices.chunks_mut(MAX_CONCURRENT_DEVICES)
ChunkLen == Min(MAX_CONCURRENT_DEVICES, Len(scan_devices) - chunk_start)

\* chunk.iter_mut().find(|d| d.mac_address == mac): the index, or 0
FindInChunk(mac) ==
    LET found == {i \in (chunk_start + 1)..(chunk_start + ChunkLen) :
                     scan_devices[i].mac_address = mac}
    IN  IF found = {} THEN 0
        ELSE CHOOSE i \in found : \A j \in found : i <= j

\* the spawn loop: the task of the next device of the chunk
ScanSpawn ==
    /\ scan_result = None
    /\ Len(handles) < ChunkLen
    /\ LET i == chunk_start + Len(handles) + 1
       IN  /\ handles' = Append(handles, [mac |-> scan_devices[i].mac_address,
                                          task |-> i])
           /\ task' = [task EXCEPT ![i].status = "running"]
    /\ UNCHANGED <<scan_devices, network, chunk_start, awaited, scanned,
                   scan_events, scan_result, completion>>
    /\ UNCHANGED <<coordVars, portVars, discVars, identVars, listVars,
                   dbVars, uiVars>>

\* a spawned scan_device_ports task runs to its end
ScanTaskFinish(i) ==
    /\ task[i].status = "running"
    /\ \E r \in TaskResults(network) :
          task' = [task EXCEPT ![i] = [status |-> "finished",
                                       probes |-> r.probes,
                                       result |-> r.result]]
    /\ completion' = IF completion = None THEN None
                     ELSE Some(Append(Unwrap(completion), i))
    /\ UNCHANGED <<scan_devices, network, chunk_start, handles, awaited,
                   scanned, scan_events, scan_result>>
    /\ UNCHANGED <<coordVars, portVars, discVars, identVars, listVars,
                   dbVars, uiVars>>

\* the await loop: the next handle of the chunk, then the PortScan event;
\* after the last handle the next chunk begins
ScanAwait ==
    /\ scan_result = None
    /\ ChunkLen > 0
    /\ Len(handles) = ChunkLen
    /\ LET h    == handles[awaited + 1]
           r    == task[h.task].result
           d    == FindInChunk(h.mac)
           done == awaited + 1 = Len(handles)
       IN  /\ task[h.task].status = "finished"
           /\ scan_devices' =
                 IF r.ok /\ r.value.ok /\ d # 0
                 THEN [scan_devices EXCEPT ![d].services = r.value.value]
                 ELSE scan_devices
           /\ scanned' = scanned + CommonPortsLen
           /\ scan_events' = Append(scan_events,
                                    PortScanEvent(Len(scan_devices), h.mac,
                                                  scanned + CommonPortsLen))
           /\ awaited' = IF done THEN 0 ELSE awaited + 1
           /\ handles' = IF done THEN <<>> ELSE handles
           /\ chunk_start' = IF done THEN chunk_start + Len(handles)
                             ELSE chunk_start
    /\ UNCHANGED <<network, task, scan_result, completion>>
    /\ UNCHANGED <<coordVars, portVars, discVars, identVars, listVars,
                   dbVars, uiVars>>

\* Ok(()) after the last chunk
ScanReturn ==
    /\ scan_result = None
    /\ chunk_start = Len(scan_devices)
    /\ scan_result' = Some(Ok(<<>>))
    /\ UNCHANGED <<scan_devices, network, chunk_start, handles, task, awaited,
                   scanned, scan_events, completion>>
    /\ UNCHANGED <<coordVars, portVars, discVars, identVars, listVars,
                   dbVars, uiVars>>

\* the device lists scanned: every list of up to MaxScanDevices devices with
\* MACs of MacPool on a live network, and the lists of up to NumDevices
\* devices on a silent network
ScanInputs ==
    {[devices |-> [i \in 1..n |-> Device(m[i], i)], network |-> "live"] :
        m \in [1..MaxScanDevices -> MacPool], n \in 0..MaxScanDevices}
    \cup {[devices |-> [i \in 1..n |-> Device(i, i)], network |-> "silent"] :
             n \in 0..NumDevices}

NotStarted == [status |-> "unspawned", probes |-> <<>>, result |-> Err]

ScanInit ==
    /\ \E input \in ScanInputs :
          /\ scan_devices = input.devices
          /\ network = input.network
    /\ chunk_start = 0
    /\ handles = <<>>
    /\ task = [i \in 1..Len(scan_devices) |-> NotStarted]
    /\ awaited = 0
    /\ scanned = 0
    /\ scan_events = <<>>
    /\ scan_result = None

\* the scan variables while another part of the program is under study
ScanUnused ==
    /\ scan_devices = <<>>
    /\ network = "silent"
    /\ chunk_start = 0
    /\ handles = <<>>
    /\ task = <<>>
    /\ awaited = 0
    /\ scanned = 0
    /\ scan_events = <<>>
    /\ scan_result = None
    /\ completion = None

\* ------------------------------------------------------------------------
\* scan_device_ports (tasks)
\* ------------------------------------------------------------------------
\* The scan_port tasks of a chunk are interchangeable, so they are counted:
\* a finished task whose handle is not awaited yet is taken to be the one
\* whose handle is awaited next.

PortChunkLen_Whole == port_count - port_chunk_start

\* the length of the current chunk of ports.chunks(MAX_CONCURRENT_PORTS)
PortChunkLen == Min(MAX_CONCURRENT_PORTS, port_count - port_chunk_start)

\* the scan_port tasks spawned and not finished
PortsInFlight == port_spawned - port_awaited - port_finished

\* the spawn loop: the task of the next port of the chunk
PortSpawn ==
    /\ ~port_returned
    /\ port_spawned < PortChunkLen
    /\ port_spawned' = port_spawned + 1
    /\ UNCHANGED <<port_count, port_chunk_start, port_finished, port_awaited,
                   port_returned>>
    /\ UNCHANGED <<coordVars, scanVars, discVars, identVars, listVars,
                   dbVars, uiVars>>

\* a spawned scan_port task runs to its end
PortTaskFinish ==
    /\ PortsInFlight > 0
    /\ port_finished' = port_finished + 1
    /\ UNCHANGED <<port_count, port_chunk_start, port_spawned, port_awaited,
                   port_returned>>
    /\ UNCHANGED <<coordVars, scanVars, discVars, identVars, listVars,
                   dbVars, uiVars>>

\* the await loop: the next handle of the chunk; after the last handle the
\* next chunk begins
PortAwait ==
    /\ ~port_returned
    /\ PortChunkLen > 0
    /\ port_spawned = PortChunkLen
    /\ port_finished > 0
    /\ LET done == port_awaited + 1 = port_spawned
       IN  /\ port_finished' = port_finished - 1
           /\ port_awaited' = IF done THEN 0 ELSE port_awaited + 1
           /\ port_spawned' = IF done THEN 0 ELSE port_spawned
           /\ port_chunk_start' = IF done THEN port_chunk_start + port_spawned
                                  ELSE port_chunk_start
    /\ UNCHANGED <<port_count, port_returned>>
    /\ UNCHANGED <<coordVars, scanVars, discVars, identVars, listVars,
                   dbVars, uiVars>>

\* Ok(services) after the last chunk
PortReturn ==
    /\ ~port_returned
    /\ port_chunk_start = port_count
    /\ port_returned' = TRUE
    /\ UNCHANGED <<port_count, port_chunk_start, port_spawned, port_finished,
                   port_awaited>>
    /\ UNCHANGED <<coordVars, scanVars, discVars, identVars, listVars,
                   dbVars, uiVars>>

\* the lengths of the port lists: every length up to MaxPortListLen,
\* COMMON_PORTS, and the full and the last chunk of deep_scan_device
PortListLens ==
    (0..MaxPortListLen)
       \cup {CommonPortsLen, DEEP_SCAN_CHUNK, ALL_PORTS_COUNT % DEEP_SCAN_CHUNK}

PortInit ==
    /\ port_count \in PortListLens
    /\ port_chunk_start = 0
    /\ port_spawned = 0
    /\ port_finished = 0
    /\ port_awaited = 0
    /\ port_returned = FALSE

\* the port-task variables while another part of the program is under study
PortUnused ==
    /\ port_count = 0
    /\ port_chunk_start = 0
    /\ port_spawned = 0
    /\ port_finished = 0
    /\ port_awaited = 0
    /\ port_returned = TRUE

\* ------------------------------------------------------------------------
\* discover_devices
\* ------------------------------------------------------------------------
\* A string is a sequence of characters.  A MAC address is written with two
\* hex digits instead of twelve, "(incomplete)" as "(i)".

\* the ASCII letters
LowerAlphabet ==
    <<"a", "b", "c", "d", "e", "f", "g", "h", "i", "j", "k", "l", "m", "n",
      "o", "p", "q", "r", "s", "t", "u", "v", "w", "x", "y", "z">>

UpperAlphabet ==
    <<"A", "B", "C", "D", "E", "F", "G", "H", "I", "J", "K", "L", "M", "N",
      "O", "P", "Q", "R", "S", "T", "U", "V", "W", "X", "Y", "Z">>

\* char::to_uppercase
UpperChar(c) ==
    IF \E k \in 1..Len(LowerAlphabet) : LowerAlphabet[k] = c
    THEN UpperAlphabet[CHOOSE k \in 1..Len(LowerAlphabet) : LowerAlphabet[k] = c]
    ELSE c

\* str::to_uppercase
ToUppercase(str) == [k \in 1..Len(str) |-> UpperChar(str[k])]

\* "(incomplete)", "ff:ff:ff:ff:ff:ff", "00:00:00:00:00:00"
IncompleteMac == <<"(", "i", ")">>
BroadcastMac == <<"f", "f">>
ZeroMac == <<"0", "0">>

\* the MAC column of the ARP lines
MacStrings ==
    {<<"a", "b">>, <<"A", "B">>, <<"c", "d">>, BroadcastMac, <<"F", "F">>,
     IncompleteMac}

\* the addresses of the ARP lines, of the gateway and of the host
IpPool == {"10.0.0.1", "10.0.0.2"}

\* parse_arp_line on a line that parses
ArpLine(ip, mac) == [ip |-> ip, mac |-> mac]

RECURSIVE ParseArpLines(_, _, _)
\* the loop of parse_arp_cache
ParseArpLines(lines, devs, seen_macs) ==
    IF lines = <<>> THEN devs
    ELSE LET ip        == Head(lines).ip
             mac       == Head(lines).mac
             mac_upper == ToUppercase(mac)
         IN  IF mac = IncompleteMac \/ mac = BroadcastMac
             THEN ParseArpLines(Tail(lines), devs, seen_macs)
             ELSE IF mac_upper \in seen_macs
             THEN ParseArpLines(Tail(lines), devs, seen_macs)
             ELSE ParseArpLines(Tail(lines),
                                Append(devs, Device(mac_upper, ip)),
                                seen_macs \cup {mac_upper})

\* parse_arp_cache
ParseArpCache(table) ==
    IF ~table.ok THEN Err ELSE Ok(ParseArpLines(table.value, <<>>, {}))

\* get_mac_for_ip: the MAC column of the line `arp -n ip` prints
GetMacForIp(table, ip) ==
    IF ~table.ok THEN None
    ELSE LET hits == {k \in 1..Len(table.value) : table.value[k].ip = ip}
         IN  IF hits = {} THEN None
             ELSE Some(table.value[CHOOSE k \in hits : \A j \in hits : k <= j].mac)

\* the gateway insertion without the Router tag
WithGateway_Untagged(devs, table, gateway) ==
    IF \E k \in 1..Len(devs) : devs[k].ip_address = gateway
    THEN devs
    ELSE LET found       == GetMacForIp(table, gateway)
             gateway_mac == IF found # None THEN Unwrap(found) ELSE ZeroMac
         IN  Append(devs, Device(gateway_mac, gateway))

\* the gateway insertion of discover_devices
WithGateway(devs, table, gateway) ==
    IF \E k \in 1..Len(devs) : devs[k].ip_address = gateway
    THEN devs
    ELSE LET found       == GetMacForIp(table, gateway)
             gateway_mac == IF found # None THEN Unwrap(found) ELSE ZeroMac
         IN  Append(devs, [Device(gateway_mac, gateway) EXCEPT !.device_type = "Router"])

\* the labelling of the host's own device
WithThisDevice(devs, local_ip) ==
    [k \in 1..Len(devs) |->
        IF devs[k].ip_address = local_ip
        THEN [devs[k] EXCEPT !.hostname = Some(<<"T", "h", "i", "s", " ", "d", "e", "v", "i", "c", "e">>)]
        ELSE devs[k]]

\* discover_devices: its Result and the events it sent
DiscoverDevices(table, route, local) ==
    LET parsed == ParseArpCache(table)
    IN  IF ~local.ok \/ ~parsed.ok \/ ~route.ok
        THEN [result |-> Err, events |-> <<DiscoveryEvent(0)>>]
        ELSE LET merged  == IF route.value # None
                            THEN WithGateway(parsed.value, table, Unwrap(route.value))
                            ELSE parsed.value
                 labeled == WithThisDevice(merged, local.value)
             IN  [result |-> Ok(labeled),
                  events |-> <<DiscoveryEvent(0), DiscoveryEvent(Len(labeled))>>]

discover_devices ==
    /\ discovered = None
    /\ discovered' = Some(DiscoverDevices(arp_table, route_table, local_info))
    /\ UNCHANGED <<arp_table, route_table, local_info>>
    /\ UNCHANGED <<coordVars, scanVars, portVars, identVars, listVars,
                   dbVars, uiVars>>

\* the ARP tables: `arp -a` cannot be run, or prints up to MaxArpLines lines
ArpTables ==
    {Err} \cup
    {Ok(lines) : lines \in UNION {[1..n -> {ArpLine(ip, mac) : ip \in IpPool,
                                                              mac \in MacStrings}] :
                                     n \in 0..MaxArpLines}}

DiscInit ==
    /\ arp_table \in ArpTables
    /\ route_table \in {Err, Ok(None)} \cup {Ok(Some(ip)) : ip \in IpPool}
    /\ local_info \in {Err} \cup {Ok(ip) : ip \in IpPool}
    /\ discovered = None

\* the discovery variables while another part of the program is under study
DiscUnused ==
    /\ arp_table = Err
    /\ route_table = Err
    /\ local_info = Err
    /\ discovered = None

\* ------------------------------------------------------------------------
\* lookup_vendor
\* ------------------------------------------------------------------------
\* char::to_lowercase
LowerChar(c) ==
    IF \E k \in 1..Len(UpperAlphabet) : UpperAlphabet[k] = c
    THEN LowerAlphabet[CHOOSE k \in 1..Len(UpperAlphabet) : UpperAlphabet[k] = c]
    ELSE c

\* str::to_lowercase
ToLowercase(str) == [k \in 1..Len(str) |-> LowerChar(str[k])]

\* str::contains
Contains(str, pat) ==
    \E k \in 0..(Len(str) - Len(pat)) : SubSeq(str, k + 1, k + Len(pat)) = pat

\* Iterator::take
Take(str, n) == SubSeq(str, 1, Min(n, Len(str)))

\* char::is_ascii_hexdigit
IsAsciiHexdigit(c) ==
    c \in {"0", "1", "2", "3", "4", "5", "6", "7", "8", "9",
           "a", "b", "c", "d", "e", "f", "A", "B", "C", "D", "E", "F"}

\* the separators lookup_vendor splits at
IsMacSeparator(c) == c \in {":", "-", "."}

RECURSIVE SplitMac(_, _, _)
\* mac.split(..).collect(): parts holds the finished parts, cur the part
\* being read
SplitMac(str, cur, parts) ==
    IF str = <<>> THEN Append(parts, cur)
    ELSE IF IsMacSeparator(Head(str))
         THEN SplitMac(Tail(str), <<>>, Append(parts, cur))
         ELSE SplitMac(Tail(str), Append(cur, Head(str)), parts)

\* an octet copied without padding
PadOctet_None(p) == p

\* format!("{:0>2}", p): zeros on the left up to two characters
PadOctet(p) ==
    IF Len(p) >= 2 THEN p
    ELSE [k \in 1..(2 - Len(p)) |-> "0"] \o p

\* Vendor names, host names and banners are strings the program searches, so
\* they are sequences of characters as well.

\* the insertions of get_oui_database, in the order they are made
OUI_DB_INSERTS == <<
    [vendor |-> <<"A", "p", "p", "l", "e">>,
     prefixes |-> {
        <<"0", "0", "2", "6", "B", "B">>, <<"3", "C", "5", "A", "B", "4">>,
        <<"A", "4", "C", "3", "6", "1">>, <<"F", "0", "D", "1", "A", "9">>,
        <<"D", "0", "8", "1", "7", "A">>, <<"B", "8", "E", "8", "5", "6">>,
        <<"8", "8", "6", "6", "A", "5">>, <<"2", "8", "E", "0", "2", "C">>,
        <<"F", "0", "D", "C", "E", "2">>, <<"6", "4", "A", "5", "C", "3">>,
        <<"4", "8", "A", "1", "9", "5">>}],
    [vendor |-> <<"S", "a", "m", "s", "u", "n", "g">>,
     prefixes |-> {
        <<"0", "0", "2", "1", "1", "9">>, <<"3", "4", "1", "4", "5", "F">>,
        <<"5", "0", "A", "4", "C", "8">>, <<"7", "8", "B", "D", "9", "D">>,
        <<"8", "4", "1", "1", "9", "E">>, <<"8", "C", "7", "1", "F", "8">>,
        <<"9", "4", "6", "3", "D", "1">>, <<"A", "C", "E", "4", "B", "5">>,
        <<"B", "C", "8", "C", "C", "D">>}],
    [vendor |-> <<"G", "o", "o", "g", "l", "e">>,
     prefixes |-> {
        <<"0", "0", "1", "A", "1", "1">>, <<"3", "C", "5", "A", "B", "4">>,
        <<"5", "4", "6", "0", "8", "C">>, <<"9", "4", "E", "B", "2", "C">>,
        <<"F", "4", "F", "5", "D", "8">>, <<"F", "4", "F", "5", "E", "8">>}],
    [vendor |-> <<"I", "n", "t", "e", "l">>,
     prefixes |-> {
        <<"0", "0", "1", "1", "1", "1">>, <<"0", "0", "1", "3", "0", "2">>,
        <<"0", "0", "1", "5", "0", "0">>, <<"0", "0", "1", "6", "E", "A">>,
        <<"0", "0", "1", "B", "2", "1">>, <<"3", "C", "9", "7", "0", "E">>,
        <<"4", "8", "5", "B", "3", "9">>, <<"5", "C", "E", "0", "C", "5">>,
        <<"8", "0", "8", "6", "F", "2">>}],
    [vendor |-> <<"E", "s", "p", "r", "e", "s", "s", "i", "f">>,
     prefixes |-> {
        <<"2", "4", "0", "A", "C", "4">>, <<"2", "4", "B", "2", "D", "E">>,
        <<"2", "C", "3", "A", "E", "8">>, <<"3", "0", "A", "E", "A", "4">>,
        <<"5", "C", "C", "F", "7", "F">>, <<"8", "4", "C", "C", "A", "8">>,
        <<"A", "4", "C", "F", "1", "2">>, <<"E", "C", "F", "A", "B", "C">>,
        <<"0", "8", "B", "6", "1", "F">>, <<"0", "8", "F", "9", "E", "0">>,
        <<"1", "0", "5", "2", "1", "C">>, <<"1", "0", "9", "1", "4", "F">>,
        <<"1", "8", "F", "E", "3", "4">>, <<"2", "4", "D", "7", "E", "B">>,
        <<"2", "4", "6", "2", "A", "B">>, <<"2", "8", "3", "7", "3", "4">>,
        <<"2", "C", "9", "1", "1", "4">>, <<"2", "C", "F", "4", "3", "2">>,
        <<"2", "E", "C", "8", "E", "B">>, <<"3", "0", "1", "0", "D", "E">>,
        <<"3", "0", "3", "A", "6", "4">>, <<"3", "4", "8", "6", "4", "A">>,
        <<"3", "4", "9", "4", "5", "B">>, <<"3", "4", "A", "B", "9", "5">>,
        <<"3", "C", "6", "1", "E", "C">>, <<"3", "C", "7", "1", "B", "F">>,
        <<"4", "0", "4", "C", "C", "A">>, <<"4", "0", "F", "5", "2", "0">>,
        <<"4", "4", "1", "7", "9", "B">>, <<"4", "8", "0", "F", "D", "2">>,
        <<"4", "8", "E", "7", "2", "9">>, <<"4", "C", "1", "1", "A", "E">>,
        <<"4", "C", "7", "5", "2", "5">>, <<"5", "0", "0", "2", "9", "1">>,
        <<"5", "C", "0", "1", "3", "3">>, <<"5", "C", "C", "F", "7", "F">>,
        <<"6", "0", "0", "1", "9", "D">>, <<"6", "0", "A", "5", "E", "2">>,
        <<"6", "4", "A", "2", "F", "9">>, <<"6", "4", "B", "7", "B", "7">>,
        <<"6", "8", "3", "E", "3", "4">>, <<"6", "8", "B", "6", "B", "3">>,
        <<"6", "8", "C", "6", "3", "A">>, <<"7", "8", "E", "3", "6", "D">>,
        <<"7", "C", "8", "7", "C", "E">>, <<"8", "0", "7", "D", "3", "A">>,
        <<"8", "4", "F", "7", "0", "3">>, <<"8", "8", "0", "B", "C", "9">>,
        <<"8", "C", "4", "B", "1", "4">>, <<"8", "C", "7", "C", "9", "2">>,
        <<"8", "C", "A", "A", "B", "5">>, <<"9", "0", "3", "8", "0", "C">>,
        <<"9", "8", "C", "D", "A", "C">>, <<"9", "8", "F", "4", "A", "B">>,
        <<"A", "0", "2", "0", "A", "6">>, <<"A", "0", "D", "4", "F", "0">>,
        <<"A", "4", "E", "5", "7", "C">>, <<"A", "8", "0", "3", "2", "A">>,
        <<"A", "C", "0", "B", "F", "B">>, <<"A", "C", "6", "7", "B", "2">>,
        <<"B", "0", "B", "2", "1", "C">>, <<"B", "4", "E", "6", "2", "D">>,
        <<"B", "C", "8", "A", "8", "C">>, <<"B", "C", "D", "D", "3", "7">>,
        <<"C", "4", "5", "B", "B", "E">>, <<"C", "8", "C", "9", "A", "3">>,
        <<"C", "C", "5", "0", "E", "3">>, <<"D", "8", "A", "0", "1", "D">>,
        <<"D", "8", "B", "F", "C", "0">>, <<"D", "8", "F", "1", "5", "B">>,
        <<"D", "C", "4", "F", "2", "2">>, <<"E", "0", "E", "2", "E", "6">>,
        <<"E", "8", "D", "B", "8", "4">>, <<"E", "C", "6", "2", "6", "0">>,
        <<"E", "C", "9", "4", "D", "3">>, <<"F", "0", "0", "8", "D", "1">>,
        <<"F", "4", "C", "F", "A", "2">>, <<"F", "C", "0", "1", "9", "B">>,
        <<"F", "C", "F", "5", "C", "4">>}],
    [vendor |-> <<"S", "h", "e", "l", "l", "y">>,
     prefixes |-> {
        <<"3", "4", "9", "4", "5", "B">>, <<"4", "8", "3", "F", "D", "A">>,
        <<"8", "4", "C", "C", "A", "8">>, <<"E", "8", "D", "B", "8", "4">>,
        <<"E", "C", "6", "2", "6", "0">>}],
    [vendor |-> <<"A", "m", "a", "z", "o", "n">>,
     prefixes |-> {
        <<"0", "C", "4", "7", "C", "9">>, <<"1", "8", "B", "4", "A", "6">>,
        <<"3", "4", "D", "2", "7", "0">>, <<"4", "0", "B", "4", "C", "D">>,
        <<"5", "0", "D", "C", "E", "7">>, <<"6", "8", "7", "D", "6", "B">>,
        <<"7", "4", "7", "5", "4", "8">>, <<"A", "0", "0", "2", "D", "C">>,
        <<"F", "C", "6", "5", "D", "E">>}],
    [vendor |-> <<"M", "u", "l", "t", "i", "c", "a", "s", "t">>,
     prefixes |-> {
        <<"0", "1", "0", "0", "5", "E">>}],
    [vendor |-> <<"X", "i", "a", "o", "m", "i">>,
     prefixes |-> {
        <<"0", "0", "E", "C", "0", "A">>, <<"0", "C", "1", "D", "A", "F">>,
        <<"2", "8", "6", "C", "0", "7">>, <<"3", "4", "C", "E", "0", "0">>,
        <<"5", "0", "A", "7", "2", "8">>, <<"6", "4", "B", "4", "7", "3">>,
        <<"7", "4", "D", "4", "D", "D">>, <<"7", "8", "1", "1", "2", "F">>,
        <<"9", "C", "9", "9", "A", "0">>, <<"A", "C", "3", "7", "4", "3">>,
        <<"F", "8", "A", "4", "5", "F">>}],
    [vendor |-> <<"M", "i", "c", "r", "o", "s", "o", "f", "t">>,
     prefixes |-> {
        <<"0", "0", "1", "D", "D", "8">>, <<"0", "0", "5", "0", "F", "2">>,
        <<"2", "8", "1", "8", "6", "D">>, <<"5", "0", "5", "7", "9", "C">>,
        <<"7", "C", "B", "2", "7", "D">>, <<"B", "4", "8", "3", "E", "7">>,
        <<"C", "8", "3", "D", "D", "4">>}],
    [vendor |-> <<"R", "e", "a", "l", "t", "e", "k">>,
     prefixes |-> {
        <<"0", "0", "E", "0", "4", "C">>, <<"0", "0", "0", "4", "4", "B">>,
        <<"0", "0", "1", "F", "1", "F">>, <<"2", "0", "C", "F", "3", "0">>,
        <<"4", "8", "E", "2", "4", "B">>, <<"5", "2", "5", "4", "0", "B">>,
        <<"5", "4", "E", "1", "A", "D">>, <<"7", "4", "D", "A", "3", "8">>,
        <<"8", "0", "1", "F", "0", "2">>, <<"9", "4", "D", "E", "8", "0">>,
        <<"9", "8", "5", "4", "1", "B">>, <<"D", "8", "E", "B", "4", "6">>,
        <<"E", "0", "4", "F", "4", "3">>, <<"E", "C", "0", "8", "6", "B">>}],
    [vendor |-> <<"I", "n", "t", "e", "l">>,
     prefixes |-> {
        <<"0", "0", "1", "1", "1", "1">>, <<"0", "0", "1", "3", "0", "2">>,
        <<"0", "0", "1", "5", "1", "7">>, <<"0", "0", "1", "6", "E", "A">>,
        <<"0", "0", "2", "3", "1", "4">>, <<"0", "0", "2", "1", "5", "D">>,
        <<"3", "4", "1", "3", "E", "8">>, <<"3", "8", "4", "6", "9", "7">>,
        <<"4", "8", "5", "D", "3", "6">>, <<"5", "C", "C", "5", "D", "4">>,
        <<"6", "0", "6", "7", "2", "0">>, <<"6", "4", "5", "A", "0", "4">>,
        <<"6", "C", "8", "8", "3", "C">>, <<"7", "C", "5", "C", "F", "8">>,
        <<"8", "0", "8", "6", "1", "F">>, <<"8", "4", "8", "F", "6", "9">>,
        <<"9", "4", "6", "5", "9", "C">>, <<"9", "8", "5", "F", "D", "3">>,
        <<"A", "0", "3", "6", "9", "F">>, <<"A", "4", "C", "4", "9", "4">>,
        <<"B", "8", "0", "8", "8", "C">>, <<"C", "C", "2", "F", "7", "1">>,
        <<"D", "C", "5", "3", "6", "C">>, <<"E", "4", "B", "9", "7", "A">>}],
    [vendor |-> <<"T", "P", "-", "L", "i", "n", "k">>,
     prefixes |-> {
        <<"0", "0", "1", "4", "7", "0">>, <<"1", "4", "C", "C", "2", "0">>,
        <<"1", "C", "3", "B", "F", "3">>, <<"3", "0", "B", "5", "C", "2">>,
        <<"5", "0", "3", "E", "A", "A">>, <<"5", "4", "E", "6", "F", "C">>,
        <<"9", "0", "F", "6", "5", "2">>, <<"C", "0", "2", "5", "E", "9">>,
        <<"D", "8", "0", "D", "1", "7">>}],
    [vendor |-> <<"N", "e", "t", "g", "e", "a", "r">>,
     prefixes |-> {
        <<"0", "0", "2", "4", "B", "2">>, <<"0", "0", "2", "6", "5", "A">>,
        <<"2", "0", "E", "5", "2", "A">>, <<"2", "8", "C", "6", "8", "E">>,
        <<"6", "0", "3", "8", "E", "0">>, <<"7", "4", "4", "4", "0", "1">>,
        <<"9", "C", "3", "D", "C", "F">>, <<"A", "4", "2", "B", "8", "C">>,
        <<"C", "0", "3", "F", "0", "E">>}],
    [vendor |-> <<"A", "S", "U", "S">>,
     prefixes |-> {
        <<"0", "0", "1", "7", "3", "1">>, <<"0", "4", "4", "2", "1", "A">>,
        <<"0", "8", "6", "0", "6", "E">>, <<"1", "4", "D", "A", "E", "9">>,
        <<"2", "C", "4", "D", "5", "4">>, <<"5", "0", "4", "6", "5", "D">>,
        <<"7", "4", "D", "0", "2", "B">>, <<"A", "C", "D", "E", "4", "8">>,
        <<"F", "4", "6", "D", "0", "4">>, <<"C", "8", "7", "F", "5", "4">>,
        <<"1", "8", "3", "1", "B", "F">>, <<"2", "C", "F", "D", "A", "1">>,
        <<"3", "4", "9", "7", "7", "A">>, <<"3", "8", "D", "5", "4", "7">>,
        <<"4", "C", "E", "D", "F", "B">>, <<"6", "0", "A", "4", "4", "C">>,
        <<"7", "0", "7", "7", "8", "1">>, <<"9", "0", "E", "6", "B", "A">>,
        <<"9", "C", "5", "C", "8", "E">>, <<"A", "C", "9", "E", "1", "7">>,
        <<"B", "0", "6", "E", "B", "F">>, <<"B", "C", "5", "C", "4", "C">>,
        <<"D", "8", "5", "0", "E", "6">>, <<"E", "0", "3", "F", "4", "9">>,
        <<"F", "8", "3", "2", "E", "4">>, <<"F", "C", "A", "A", "1", "4">>}],
    [vendor |-> <<"D", "e", "l", "l">>,
     prefixes |-> {
        <<"0", "0", "1", "4", "2", "2">>, <<"1", "4", "1", "8", "7", "D">>,
        <<"1", "4", "9", "1", "8", "2">>, <<"1", "8", "A", "9", "9", "B">>,
        <<"2", "8", "F", "1", "0", "E">>, <<"3", "4", "E", "6", "D", "7">>,
        <<"5", "C", "2", "6", "0", "A">>, <<"7", "4", "E", "6", "E", "2">>,
        <<"D", "8", "9", "E", "F", "3">>}],
    [vendor |-> <<"H", "P">>,
     prefixes |-> {
        <<"0", "0", "1", "0", "8", "3">>, <<"0", "0", "1", "1", "8", "5">>,
        <<"0", "0", "1", "6", "3", "5">>, <<"0", "0", "1", "7", "0", "8">>,
        <<"1", "0", "6", "0", "4", "B">>, <<"2", "8", "9", "2", "4", "A">>,
        <<"3", "C", "4", "A", "9", "2">>, <<"8", "0", "C", "E", "6", "2">>,
        <<"D", "4", "2", "C", "4", "4">>}],
    [vendor |-> <<"L", "e", "n", "o", "v", "o">>,
     prefixes |-> {
        <<"0", "0", "2", "4", "8", "2">>, <<"3", "4", "7", "0", "8", "3">>,
        <<"4", "C", "5", "2", "6", "2">>, <<"6", "0", "D", "8", "1", "9">>,
        <<"6", "C", "0", "B", "8", "4">>, <<"C", "4", "D", "0", "E", "3">>,
        <<"E", "8", "3", "9", "3", "4">>, <<"F", "8", "2", "F", "A", "8">>}],
    [vendor |-> <<"S", "y", "n", "o", "l", "o", "g", "y">>,
     prefixes |-> {
        <<"0", "0", "1", "1", "A", "0">>, <<"0", "0", "1", "1", "3", "2">>}],
    [vendor |-> <<"R", "a", "s", "p", "b", "e", "r", "r", "y", " ", "P", "i">>,
     prefixes |-> {
        <<"B", "8", "2", "7", "E", "B">>, <<"D", "C", "A", "6", "3", "2">>,
        <<"E", "4", "5", "F", "0", "1">>}],
    [vendor |-> <<"S", "o", "n", "y">>,
     prefixes |-> {
        <<"0", "0", "0", "A", "D", "9">>, <<"0", "0", "1", "3", "1", "5">>,
        <<"0", "0", "1", "A", "8", "0">>, <<"2", "8", "A", "0", "2", "B">>,
        <<"4", "0", "B", "8", "3", "7">>, <<"8", "C", "4", "9", "0", "9">>,
        <<"A", "8", "5", "B", "6", "1">>, <<"F", "8", "D", "A", "0", "C">>}],
    [vendor |-> <<"L", "G">>,
     prefixes |-> {
        <<"0", "0", "1", "2", "5", "6">>, <<"1", "0", "F", "9", "6", "F">>,
        <<"3", "4", "0", "8", "0", "4">>, <<"6", "4", "8", "9", "9", "A">>,
        <<"7", "8", "F", "8", "8", "2">>, <<"9", "C", "A", "3", "9", "B">>,
        <<"A", "8", "F", "2", "7", "4">>, <<"C", "8", "3", "8", "7", "0">>}],
    [vendor |-> <<"N", "i", "n", "t", "e", "n", "d", "o">>,
     prefixes |-> {
        <<"0", "0", "1", "6", "5", "6">>, <<"0", "0", "2", "3", "3", "1">>,
        <<"3", "4", "A", "F", "2", "C">>, <<"5", "8", "2", "F", "4", "0">>,
        <<"7", "C", "B", "B", "8", "A">>, <<"9", "8", "B", "6", "E", "9">>,
        <<"A", "4", "3", "8", "C", "C">>, <<"E", "8", "4", "E", "C", "E">>}],
    [vendor |-> <<"U", "b", "i", "q", "u", "i", "t", "i">>,
     prefixes |-> {
        <<"0", "0", "1", "5", "6", "D">>, <<"0", "0", "2", "7", "2", "2">>,
        <<"1", "8", "E", "8", "2", "9">>, <<"4", "4", "D", "9", "E", "7">>,
        <<"6", "8", "D", "7", "9", "A">>, <<"7", "8", "8", "A", "2", "0">>,
        <<"8", "0", "2", "A", "A", "8">>, <<"F", "C", "F", "F", "D", "4">>}],
    [vendor |-> <<"X", "i", "a", "o", "m", "i">>,
     prefixes |-> {
        <<"0", "C", "1", "D", "A", "F">>, <<"2", "8", "E", "3", "1", "F">>,
        <<"5", "0", "6", "4", "7", "B">>, <<"6", "4", "B", "4", "7", "3">>,
        <<"7", "C", "1", "D", "D", "9">>, <<"9", "8", "F", "A", "E", "3">>,
        <<"A", "C", "1", "E", "9", "2">>, <<"F", "0", "B", "4", "2", "9">>}],
    [vendor |-> <<"H", "u", "a", "w", "e", "i">>,
     prefixes |-> {
        <<"0", "0", "0", "D", "9", "E">>, <<"0", "0", "1", "8", "8", "2">>,
        <<"0", "0", "2", "5", "D", "7">>, <<"2", "4", "D", "F", "6", "A">>,
        <<"5", "C", "7", "D", "5", "E">>, <<"7", "0", "7", "0", "0", "D">>,
        <<"8", "8", "C", "E", "F", "A">>, <<"C", "8", "D", "1", "5", "E">>}],
    [vendor |-> <<"C", "i", "s", "c", "o">>,
     prefixes |-> {
        <<"0", "0", "0", "1", "4", "2">>, <<"0", "0", "1", "A", "6", "D">>,
        <<"0", "0", "2", "1", "5", "5">>, <<"0", "0", "2", "5", "9", "C">>,
        <<"2", "8", "9", "4", "0", "F">>, <<"3", "8", "E", "D", "1", "8">>,
        <<"5", "4", "7", "5", "D", "0">>, <<"8", "8", "5", "1", "F", "B">>}],
    [vendor |-> <<"S", "o", "n", "o", "s">>,
     prefixes |-> {
        <<"0", "0", "0", "E", "5", "8">>, <<"5", "4", "9", "4", "F", "3">>,
        <<"5", "C", "A", "A", "F", "D">>, <<"7", "8", "2", "8", "3", "C">>,
        <<"9", "4", "D", "A", "A", "E">>, <<"B", "8", "E", "9", "3", "7">>}],
    [vendor |-> <<"R", "o", "k", "u">>,
     prefixes |-> {
        <<"0", "8", "0", "5", "9", "E">>, <<"B", "0", "A", "7", "3", "7">>,
        <<"C", "8", "F", "C", "1", "8">>, <<"D", "0", "3", "4", "7", "8">>,
        <<"D", "C", "3", "A", "5", "E">>}]
>>

\* oui.get(key): the vendor of the last insertion of the key
OuiGet(key) ==
    LET hits == {k \in 1..Len(OUI_DB_INSERTS) : key \in OUI_DB_INSERTS[k].prefixes}
    IN  IF hits = {} THEN None
        ELSE Some(OUI_DB_INSERTS[CHOOSE k \in hits : \A j \in hits : j <= k].vendor)

\* the prefix lookup_vendor looks up
NormalizeMac(mac) ==
    LET parts == SplitMac(mac, <<>>, <<>>)
    IN  IF Len(parts) >= 3
        THEN PadOctet(ToUppercase(parts[1])) \o PadOctet(ToUppercase(parts[2]))
                \o PadOctet(ToUppercase(parts[3]))
        ELSE ToUppercase(Take(SelectSeq(mac, IsAsciiHexdigit), 6))

\* the fallback for a prefix the table lacks, with the locally
\* administered test left out
RandomizedFallback_Never(normalized) == None

\* the fallback for a prefix the table lacks
RandomizedFallback(normalized) ==
    IF normalized[2] \in {"2", "6", "A", "E"}
    THEN Some(<<"P", "r", "i", "v", "a", "t", "e", "/", "R", "a", "n", "d", "o", "m", "i", "z", "e", "d">>)
    ELSE None

\* lookup_vendor
LookupVendor(mac) ==
    LET normalized == NormalizeMac(mac)
    IN  IF Len(normalized) < 6 THEN None
        ELSE IF OuiGet(normalized) # None THEN OuiGet(normalized)
        ELSE RandomizedFallback(normalized)

lookup_vendor ==
    /\ lookup_result = None
    /\ lookup_result' = Some(LookupVendor(lookup_mac))
    /\ UNCHANGED <<lookup_mac, probe_port, probe_banner, probe_service,
                   ident_trace, ident_step>>
    /\ UNCHANGED <<coordVars, scanVars, portVars, discVars, listVars, dbVars, uiVars>>

\* ------------------------------------------------------------------------
\* The MAC addresses lookup_vendor is called with
\* ------------------------------------------------------------------------
\* An address is six octets of two hex digits.  The sources of the program's
\* addresses write them with colons (the arp of macOS without the leading
\* zeros, in lower case; parse_arp_cache turns them to upper case), with
\* dashes, or without separators (the test of oui.rs).

HexDigits ==
    {"0", "1", "2", "3", "4", "5", "6", "7", "8", "9", "A", "B", "C", "D", "E", "F"}

\* the first three octets: prefixes of the table, among them two whose
\* second nibble is 2 or E and one inserted twice, prefixes it lacks, and
\* one prefix for every second nibble
OuiPrefixes ==
    {<<<<"0", "0">>, <<"2", "6">>, <<"B", "B">>>>,
     <<<<"3", "C">>, <<"5", "A">>, <<"B", "4">>>>,
     <<<<"2", "E">>, <<"C", "8">>, <<"E", "B">>>>,
     <<<<"5", "2">>, <<"5", "4">>, <<"0", "B">>>>,
     <<<<"0", "1">>, <<"0", "0">>, <<"5", "E">>>>,
     <<<<"0", "C">>, <<"1", "D">>, <<"A", "F">>>>,
     <<<<"0", "0">>, <<"0", "E">>, <<"5", "8">>>>,
     <<<<"5", "C">>, <<"C", "F">>, <<"7", "F">>>>,
     <<<<"A", "A">>, <<"B", "B">>, <<"C", "C">>>>,
     <<<<"F", "F">>, <<"F", "F">>, <<"F", "F">>>>}
    \cup {<<<<a, b>>, <<"0", "0">>, <<"0", "0">>>> : a \in {"0", "F"}, b \in HexDigits}

\* the last three octets
MacTail == <<<<"1", "2">>, <<"3", "4">>, <<"5", "6">>>>

\* the six hex digits of a prefix
PrefixKey(p) == p[1] \o p[2] \o p[3]

\* an octet as arp prints it on macOS
ShortOctet(o) == IF o[1] = "0" THEN <<o[2]>> ELSE o

RECURSIVE JoinOctets(_, _)
JoinOctets(octets, sep) ==
    IF Len(octets) = 0 THEN <<>>
    ELSE IF Len(octets) = 1 THEN octets[1]
    ELSE octets[1] \o sep \o JoinOctets(Tail(octets), sep)

MacForms ==
    {"colon", "colon_lower", "short", "short_lower", "dash", "plain", "plain_lower"}

\* the address with prefix p in the given form
RenderMac(p, form) ==
    LET octets == p \o MacTail
        short  == [k \in 1..Len(octets) |-> ShortOctet(octets[k])]
    IN  CASE form = "colon"       -> JoinOctets(octets, <<":">>)
          [] form = "colon_lower" -> ToLowercase(JoinOctets(octets, <<":">>))
          [] form = "short"       -> JoinOctets(short, <<":">>)
          [] form = "short_lower" -> ToLowercase(JoinOctets(short, <<":">>))
          [] form = "dash"        -> JoinOctets(octets, <<"-">>)
          [] form = "plain"       -> JoinOctets(octets, <<>>)
          [] form = "plain_lower" -> ToLowercase(JoinOctets(octets, <<>>))

\* strings that are no address: empty, too short, "(incomplete)"
MalformedMacs ==
    {<<>>, <<"0", "0", ":", "2", "6">>, <<"0", "0", "2", "6", "B">>,
     <<"(", "i", "n", "c", "o", "m", "p", "l", "e", "t", "e", ")">>}

LookupInit ==
    /\ lookup_mac \in {RenderMac(p, form) : p \in OuiPrefixes, form \in MacForms}
                       \cup MalformedMacs
    /\ lookup_result = None

\* the variables of lookup_vendor while another part is under study
LookupUnused ==
    /\ lookup_mac = <<>>
    /\ lookup_result = None

\* ------------------------------------------------------------------------
\* grab_banner, identify_service, detect_agent, scan_port (with banners)
\* ------------------------------------------------------------------------
\* the length grab_banner cuts a banner to
BANNER_MAX_CHARS == 200

\* c.is_ascii_graphic() || c.is_ascii_whitespace(): among the characters
\* that occur only "~" stands for a byte that is neither
IsBannerChar(c) == c # "~"

\* char::is_whitespace, among the characters the filter keeps
IsWhitespace(c) == c \in {" ", "\t", "\n", "\r"}

RECURSIVE TrimStart(_)
TrimStart(str) ==
    IF str # <<>> /\ IsWhitespace(Head(str)) THEN TrimStart(Tail(str)) ELSE str

RECURSIVE TrimEnd(_)
TrimEnd(str) ==
    IF str # <<>> /\ IsWhitespace(str[Len(str)])
    THEN TrimEnd(SubSeq(str, 1, Len(str) - 1)) ELSE str

\* str::trim
Trim(str) == TrimEnd(TrimStart(str))

\* grab_banner with the trim done before the cut
GrabBanner_TrimFirst(read) ==
    IF read = None THEN None
    ELSE LET banner == Take(Trim(SelectSeq(Unwrap(read), IsBannerChar)),
                            BANNER_MAX_CHARS)
         IN  IF banner = <<>> THEN None ELSE Some(banner)

\* grab_banner, given what the read returned: None for a timeout, an error
\* or no bytes
GrabBanner(read) ==
    IF read = None THEN None
    ELSE LET banner == Trim(Take(SelectSeq(Unwrap(read), IsBannerChar),
                                 BANNER_MAX_CHARS))
         IN  IF banner = <<>> THEN None ELSE Some(banner)

\* the banner rules of identify_service on the lower-cased banner
BannerService(b) ==
    IF Contains(b, <<"s", "s", "h">>)
    THEN Some("SSH") ELSE
    IF Contains(b, <<"h", "t", "t", "p">>)
       \/ Contains(b, <<"h", "t", "m", "l">>)
    THEN Some("HTTP") ELSE
    IF Contains(b, <<"f", "t", "p">>)
    THEN Some("FTP") ELSE
    IF Contains(b, <<"s", "m", "t", "p">>)
    THEN Some("SMTP") ELSE
    IF Contains(b, <<"o", "l", "l", "a", "m", "a">>)
    THEN Some("Ollama API") ELSE
    IF Contains(b, <<"o", "p", "e", "n", "c", "l", "a", "w">>)
    THEN Some("OpenClaw") ELSE
    None

\* identify_service
identify_service(port, banner) ==
    LET hit == IF banner # None THEN BannerService(ToLowercase(Unwrap(banner)))
               ELSE None
    IN  IF hit # None THEN hit ELSE IdentifyService(port)

\* the banner rules of detect_agent on the lower-cased banner
BannerAgent(b) ==
    IF Contains(b, <<"o", "p", "e", "n", "c", "l", "a", "w">>) \/ Contains(b, <<"o", "p", "e", "n", "-", "c", "l", "a", "w">>)
    THEN IF Contains(b, <<"c", "l", "a", "w", "d", "b", "o", "t">>) \/ Contains(b, <<"c", "l", "a", "w", "d">>)
         THEN Some("Clawdbot (OpenClaw)")
         ELSE IF Contains(b, <<"m", "o", "l", "d", "b", "o", "t">>) \/ Contains(b, <<"m", "o", "l", "d">>)
         THEN Some("Moldbot (OpenClaw)")
         ELSE Some("OpenClaw")
    ELSE
    IF Contains(b, <<"c", "l", "a", "u", "d", "e">>)
       \/ Contains(b, <<"a", "n", "t", "h", "r", "o", "p", "i", "c">>)
    THEN Some("Claude Code") ELSE
    IF Contains(b, <<"c", "l", "a", "w", "d", "b", "o", "t">>)
       \/ Contains(b, <<"c", "l", "a", "w", "d">>)
    THEN Some("Clawdbot") ELSE
    IF Contains(b, <<"m", "o", "l", "d", "b", "o", "t">>)
    THEN Some("Moldbot") ELSE
    IF Contains(b, <<"o", "l", "l", "a", "m", "a">>)
    THEN Some("Ollama") ELSE
    IF Contains(b, <<"l", "l", "a", "m", "a">>)
       \/ Contains(b, <<"g", "g", "m", "l">>)
    THEN Some("Llama.cpp") ELSE
    IF Contains(b, <<"o", "p", "e", "n", "a", "i">>)
    THEN Some("OpenAI API") ELSE
    IF Contains(b, <<"v", "l", "l", "m">>)
    THEN Some("vLLM") ELSE
    IF Contains(b, <<"t", "e", "x", "t", "-", "g", "e", "n", "e", "r", "a", "t", "i", "o", "n">>)
    THEN Some("TGI") ELSE
    IF Contains(b, <<"c", "u", "r", "s", "o", "r">>)
    THEN Some("Cursor") ELSE
    IF Contains(b, <<"a", "i", "d", "e", "r">>)
    THEN Some("Aider") ELSE
    IF Contains(b, <<"c", "o", "n", "t", "i", "n", "u", "e">>)
    THEN Some("Continue.dev") ELSE
    IF Contains(b, <<"c", "o", "p", "i", "l", "o", "t">>)
    THEN Some("GitHub Copilot") ELSE
    IF Contains(b, <<"c", "o", "d", "e", "i", "u", "m">>)
    THEN Some("Codeium") ELSE
    IF Contains(b, <<"t", "a", "b", "n", "i", "n", "e">>)
    THEN Some("TabNine") ELSE
    None

\* detect_agent with the port table consulted before the banner
detect_agent_PortFirst(port, banner) ==
    LET hit == IF banner # None THEN BannerAgent(ToLowercase(Unwrap(banner)))
               ELSE None
    IN  IF DetectAgent(port) # None THEN DetectAgent(port) ELSE hit

\* detect_agent
detect_agent(port, banner) ==
    LET hit == IF banner # None THEN BannerAgent(ToLowercase(Unwrap(banner)))
               ELSE None
    IN  IF hit # None THEN hit ELSE DetectAgent(port)

\* the Service scan_port builds for a port that accepted the connection
ServiceWithBanner(port, banner) ==
    [port           |-> port,
     protocol       |-> "Tcp",
     state          |-> "Open",
     service_name   |-> identify_service(port, banner),
     banner         |-> banner,
     detected_agent |-> detect_agent(port, banner)]

\* scan_port on a stream that connected
scan_port ==
    /\ probe_service = None
    /\ probe_service' = Some(ServiceWithBanner(probe_port, GrabBanner(probe_banner)))
    /\ UNCHANGED <<lookup_mac, lookup_result, probe_port, probe_banner,
                   ident_trace, ident_step>>
    /\ UNCHANGED <<coordVars, scanVars, portVars, discVars, listVars, dbVars, uiVars>>

\* ------------------------------------------------------------------------
\* The streams scan_port reads banners from
\* ------------------------------------------------------------------------
\* pieces of banner text: agent names in the case their servers print them,
\* protocol greetings, bytes grab_banner drops, and a text without meaning
BannerFragments ==
    {<<"O", "l", "l", "a", "m", "a">>,
     <<"o", "p", "e", "n", "c", "l", "a", "w">>,
     <<"c", "l", "a", "w", "d", "b", "o", "t">>,
     <<"C", "l", "a", "u", "d", "e">>, <<"m", "o", "l", "d", "b", "o", "t">>,
     <<"S", "S", "H", "-", "2", ".", "0", "-", "O", "p", "e", "n", "S", "S", "H", "_", "9", ".", "0">>,
     <<"H", "T", "T", "P", "/", "1", ".", "1", " ", "2", "0", "0", " ", "O", "K">>,
     <<"a", "i", "d", "e", "r">>, <<" ", "~", " ">>,
     <<"h", "e", "l", "l", "o">>}

\* what a stream sends: nothing, or up to MaxFragments pieces with a blank
\* between them
BannerReads ==
    {None} \cup
    {Some(JoinOctets(fs, <<" ">>)) :
        fs \in UNION {[1..n -> BannerFragments] : n \in 1..MaxFragments}}

\* ports of the table of detect_agent, ports of COMMON_PORTS and a port of
\* neither
ProbePorts == {22, 80, 8501, 11434, 18789, 18793, 4444}

ProbeInit ==
    /\ probe_port \in ProbePorts
    /\ probe_banner \in BannerReads
    /\ probe_service = None

\* the variables of scan_port while another part is under study
ProbeUnused ==
    /\ probe_port = 0
    /\ probe_banner = None
    /\ probe_service = None

\* ------------------------------------------------------------------------
\* identify_device, infer_device_type
\* ------------------------------------------------------------------------
\* the hostname rules of infer_device_type on the lower-cased hostname:
\* the type of the first rule that matches, or None
HostnameType(h) ==
    IF Contains(h, <<"t", "v">>)
       \/ Contains(h, <<"w", "e", "b", "o", "s">>)
       \/ Contains(h, <<"r", "o", "k", "u">>)
       \/ Contains(h, <<"f", "i", "r", "e", "t", "v">>)
       \/ Contains(h, <<"c", "h", "r", "o", "m", "e", "c", "a", "s", "t">>)
       \/ Contains(h, <<"a", "n", "d", "r", "o", "i", "d", "t", "v">>)
    THEN Some("SmartTV") ELSE
    IF Contains(h, <<"x", "b", "o", "x">>)
       \/ Contains(h, <<"p", "l", "a", "y", "s", "t", "a", "t", "i", "o", "n">>)
       \/ Contains(h, <<"p", "s", "4">>)
       \/ Contains(h, <<"p", "s", "5">>)
       \/ Contains(h, <<"n", "i", "n", "t", "e", "n", "d", "o">>)
       \/ (Contains(h, <<"s", "w", "i", "t", "c", "h">>) /\ ~Contains(h, <<"s", "w", "i", "t", "c", "h", "b", "o", "t">>))
    THEN Some("GameConsole") ELSE
    IF Contains(h, <<"i", "p", "h", "o", "n", "e">>)
       \/ Contains(h, <<"i", "p", "a", "d">>)
    THEN Some("Phone") ELSE
    IF Contains(h, <<"m", "a", "c", "b", "o", "o", "k">>)
       \/ Contains(h, <<"i", "m", "a", "c">>)
       \/ Contains(h, <<"-", "m", "b", "p">>)
       \/ Contains(h, <<"m", "a", "c", "-">>)
       \/ h = <<"m", "a", "c">>
    THEN Some("Computer") ELSE
    IF Contains(h, <<"d", "e", "s", "k", "t", "o", "p">>)
       \/ Contains(h, <<"l", "a", "p", "t", "o", "p">>)
       \/ Contains(h, <<"-", "p", "c">>)
       \/ Contains(h, <<"w", "o", "r", "k", "s", "t", "a", "t", "i", "o", "n">>)
    THEN Some("Computer") ELSE
    IF Contains(h, <<"c", "a", "c", "h", "y", "o", "s">>)
       \/ Contains(h, <<"u", "b", "u", "n", "t", "u">>)
       \/ Contains(h, <<"f", "e", "d", "o", "r", "a">>)
       \/ Contains(h, <<"a", "r", "c", "h">>)
       \/ Contains(h, <<"d", "e", "b", "i", "a", "n">>)
       \/ Contains(h, <<"l", "i", "n", "u", "x">>)
    THEN Some("Computer") ELSE
    IF Contains(h, <<"y", "e", "e", "l", "i", "n", "k">>)
       \/ Contains(h, <<"y", "e", "e", "l", "i", "g", "h", "t">>)
       \/ Contains(h, <<"s", "w", "i", "t", "c", "h", "b", "o", "t">>)
       \/ Contains(h, <<"s", "h", "e", "l", "l", "y">>)
       \/ Contains(h, <<"t", "a", "s", "m", "o", "t", "a">>)
       \/ Contains(h, <<"t", "u", "y", "a">>)
       \/ Contains(h, <<"s", "o", "n", "o", "f", "f">>)
       \/ Contains(h, <<"e", "s", "p", "_">>)
       \/ Contains(h, <<"e", "s", "p", "3", "2">>)
       \/ Contains(h, <<"e", "s", "p", "8", "2", "6", "6">>)
       \/ Contains(h, <<"w", "l", "e", "d">>)
    THEN Some("IoT") ELSE
    IF Contains(h, <<"p", "r", "i", "n", "t", "e", "r">>)
       \/ Contains(h, <<"b", "r", "w">>)
       \/ Contains(h, <<"b", "r", "o", "t", "h", "e", "r">>)
       \/ Contains(h, <<"e", "p", "s", "o", "n">>)
       \/ Contains(h, <<"c", "a", "n", "o", "n">>)
       \/ Contains(h, <<"h", "p", "-">>)
    THEN Some("Printer") ELSE
    IF Contains(h, <<"n", "a", "s">>)
       \/ Contains(h, <<"s", "y", "n", "o", "l", "o", "g", "y">>)
       \/ Contains(h, <<"q", "n", "a", "p">>)
       \/ Contains(h, <<"d", "i", "s", "k", "s", "t", "a", "t", "i", "o", "n">>)
    THEN Some("NAS") ELSE
    IF Contains(h, <<"r", "o", "u", "t", "e", "r">>)
       \/ Contains(h, <<"g", "a", "t", "e", "w", "a", "y">>)
       \/ Contains(h, <<"-", "a", "p">>)
       \/ Contains(h, <<"u", "n", "i", "f", "i">>)
       \/ Contains(h, <<"e", "e", "r", "o">>)
       \/ Contains(h, <<"o", "r", "b", "i">>)
    THEN Some("Router") ELSE
    None

\* the port and vendor rules with the vendor test of the SSH/RDP rule left
\* out
PortVendorType_SshLaptop(ports, v) ==
    IF 53 \in ports /\ (80 \in ports \/ 443 \in ports)
    THEN "Router" ELSE
    IF 62078 \in ports /\ Contains(v, <<"a", "p", "p", "l", "e">>)
    THEN "Phone" ELSE
    IF Contains(v, <<"a", "p", "p", "l", "e">>)
    THEN IF 22 \in ports \/ 548 \in ports THEN "Computer" ELSE "Phone" ELSE
    IF 8008 \in ports \/ 8009 \in ports \/ 9197 \in ports
    THEN "SmartTV" ELSE
    IF Contains(v, <<"s", "a", "m", "s", "u", "n", "g">>) /\ ~(22 \in ports)
    THEN "SmartTV" ELSE
    IF Contains(v, <<"l", "g">>) /\ ~(22 \in ports)
    THEN "SmartTV" ELSE
    IF Contains(v, <<"r", "o", "k", "u">>) \/ Contains(v, <<"s", "o", "n", "o", "s">>)
    THEN "SmartTV" ELSE
    IF Contains(v, <<"n", "i", "n", "t", "e", "n", "d", "o">>)
    THEN "GameConsole" ELSE
    IF Contains(v, <<"s", "o", "n", "y">>) /\ ~(22 \in ports)
    THEN "GameConsole" ELSE
    IF (22 \in ports \/ 23 \in ports) /\ (445 \in ports \/ 548 \in ports)
       /\ (5000 \in ports \/ 5001 \in ports)
    THEN "NAS" ELSE
    IF Contains(v, <<"s", "y", "n", "o", "l", "o", "g", "y">>) \/ Contains(v, <<"q", "n", "a", "p">>)
    THEN "NAS" ELSE
    IF 9100 \in ports \/ 631 \in ports
    THEN "Printer" ELSE
    IF Contains(v, <<"h", "p">>) /\ 80 \in ports /\ ~(22 \in ports)
    THEN "Printer" ELSE
    IF 22 \in ports \/ 3389 \in ports
    THEN "Laptop" ELSE
    IF Contains(v, <<"e", "s", "p", "r", "e", "s", "s", "i", "f">>) \/ Contains(v, <<"a", "m", "a", "z", "o", "n">>)
    THEN "IoT" ELSE
    IF (Contains(v, <<"t", "p", "-", "l", "i", "n", "k">>) \/ Contains(v, <<"n", "e", "t", "g", "e", "a", "r">>)
        \/ Contains(v, <<"a", "s", "u", "s">>) \/ Contains(v, <<"u", "b", "i", "q", "u", "i", "t", "i">>)
        \/ Contains(v, <<"c", "i", "s", "c", "o">>))
       /\ (80 \in ports \/ 443 \in ports)
    THEN "Router" ELSE
    IF Contains(v, <<"s", "a", "m", "s", "u", "n", "g">>) \/ Contains(v, <<"x", "i", "a", "o", "m", "i">>)
       \/ Contains(v, <<"g", "o", "o", "g", "l", "e">>) \/ Contains(v, <<"h", "u", "a", "w", "e", "i">>)
    THEN "Phone" ELSE
    IF Contains(v, <<"r", "a", "s", "p", "b", "e", "r", "r", "y">>)
    THEN "Computer" ELSE
    "Unknown"

\* the port and vendor rules of infer_device_type: ports are the open
\* ports, v the lower-cased vendor
PortVendorType(ports, v) ==
    IF 53 \in ports /\ (80 \in ports \/ 443 \in ports)
    THEN "Router" ELSE
    IF 62078 \in ports /\ Contains(v, <<"a", "p", "p", "l", "e">>)
    THEN "Phone" ELSE
    IF Contains(v, <<"a", "p", "p", "l", "e">>)
    THEN IF 22 \in ports \/ 548 \in ports THEN "Computer" ELSE "Phone" ELSE
    IF 8008 \in ports \/ 8009 \in ports \/ 9197 \in ports
    THEN "SmartTV" ELSE
    IF Contains(v, <<"s", "a", "m", "s", "u", "n", "g">>) /\ ~(22 \in ports)
    THEN "SmartTV" ELSE
    IF Contains(v, <<"l", "g">>) /\ ~(22 \in ports)
    THEN "SmartTV" ELSE
    IF Contains(v, <<"r", "o", "k", "u">>) \/ Contains(v, <<"s", "o", "n", "o", "s">>)
    THEN "SmartTV" ELSE
    IF Contains(v, <<"n", "i", "n", "t", "e", "n", "d", "o">>)
    THEN "GameConsole" ELSE
    IF Contains(v, <<"s", "o", "n", "y">>) /\ ~(22 \in ports)
    THEN "GameConsole" ELSE
    IF (22 \in ports \/ 23 \in ports) /\ (445 \in ports \/ 548 \in ports)
       /\ (5000 \in ports \/ 5001 \in ports)
    THEN "NAS" ELSE
    IF Contains(v, <<"s", "y", "n", "o", "l", "o", "g", "y">>) \/ Contains(v, <<"q", "n", "a", "p">>)
    THEN "NAS" ELSE
    IF 9100 \in ports \/ 631 \in ports
    THEN "Printer" ELSE
    IF Contains(v, <<"h", "p">>) /\ 80 \in ports /\ ~(22 \in ports)
    THEN "Printer" ELSE
    IF 22 \in ports \/ 3389 \in ports
    THEN IF Contains(v, <<"d", "e", "l", "l">>) \/ Contains(v, <<"l", "e", "n", "o", "v", "o">>) \/ Contains(v, <<"h", "p">>)
         THEN "Laptop" ELSE "Computer" ELSE
    IF Contains(v, <<"e", "s", "p", "r", "e", "s", "s", "i", "f">>) \/ Contains(v, <<"a", "m", "a", "z", "o", "n">>)
    THEN "IoT" ELSE
    IF (Contains(v, <<"t", "p", "-", "l", "i", "n", "k">>) \/ Contains(v, <<"n", "e", "t", "g", "e", "a", "r">>)
        \/ Contains(v, <<"a", "s", "u", "s">>) \/ Contains(v, <<"u", "b", "i", "q", "u", "i", "t", "i">>)
        \/ Contains(v, <<"c", "i", "s", "c", "o">>))
       /\ (80 \in ports \/ 443 \in ports)
    THEN "Router" ELSE
    IF Contains(v, <<"s", "a", "m", "s", "u", "n", "g">>) \/ Contains(v, <<"x", "i", "a", "o", "m", "i">>)
       \/ Contains(v, <<"g", "o", "o", "g", "l", "e">>) \/ Contains(v, <<"h", "u", "a", "w", "e", "i">>)
    THEN "Phone" ELSE
    IF Contains(v, <<"r", "a", "s", "p", "b", "e", "r", "r", "y">>)
    THEN "Computer" ELSE
    "Unknown"

\* infer_device_type with the port and vendor rules consulted first
InferDeviceType_PortsFirst(device) ==
    LET ports        == {device.services[k].port : k \in 1..Len(device.services)}
        vendor       == IF device.vendor # None THEN Unwrap(device.vendor) ELSE <<>>
        vendor_lower == ToLowercase(vendor)
        hostname     == ToLowercase(IF device.hostname # None
                                    THEN Unwrap(device.hostname) ELSE <<>>)
        by_ports     == PortVendorType(ports, vendor_lower)
    IN  IF by_ports # "Unknown" THEN by_ports
        ELSE IF hostname # <<>> /\ HostnameType(hostname) # None
        THEN Unwrap(HostnameType(hostname))
        ELSE "Unknown"

\* infer_device_type
InferDeviceType(device) ==
    LET ports        == {device.services[k].port : k \in 1..Len(device.services)}
        vendor       == IF device.vendor # None THEN Unwrap(device.vendor) ELSE <<>>
        vendor_lower == ToLowercase(vendor)
        hostname     == ToLowercase(IF device.hostname # None
                                    THEN Unwrap(device.hostname) ELSE <<>>)
    IN  IF hostname # <<>> /\ HostnameType(hostname) # None
        THEN Unwrap(HostnameType(hostname))
        ELSE PortVendorType(ports, vendor_lower)

RECURSIVE CollectAgents(_)
\* services.iter().filter_map(|s| s.detected_agent.clone()).collect()
CollectAgents(services) ==
    IF services = <<>> THEN <<>>
    ELSE (IF Head(services).detected_agent # None
          THEN <<Unwrap(Head(services).detected_agent)>> ELSE <<>>)
            \o CollectAgents(Tail(services))

\* identify_device with the type inferred before the vendor is looked up
IdentifyDevice_TypeFirst(device) ==
    LET typed    == [device EXCEPT !.device_type = InferDeviceType(device)]
        with_ven == IF typed.vendor = None
                    THEN [typed EXCEPT !.vendor = LookupVendor(typed.mac_address)]
                    ELSE typed
    IN  [with_ven EXCEPT !.detected_agents = CollectAgents(with_ven.services)]

\* identify_device with the vendor looked up whether it is set or not
IdentifyDevice_AlwaysLookup(device) ==
    LET with_ven == [device EXCEPT !.vendor = LookupVendor(device.mac_address)]
        typed    == [with_ven EXCEPT !.device_type = InferDeviceType(with_ven)]
    IN  [typed EXCEPT !.detected_agents = CollectAgents(typed.services)]

\* identify_device
IdentifyDevice(device) ==
    LET with_ven == IF device.vendor = None
                    THEN [device EXCEPT !.vendor = LookupVendor(device.mac_address)]
                    ELSE device
        typed    == [with_ven EXCEPT !.device_type = InferDeviceType(with_ven)]
    IN  [typed EXCEPT !.detected_agents = CollectAgents(typed.services)]

\* ------------------------------------------------------------------------
\* The pipeline on one device: Device::new, scan_device_ports over
\* COMMON_PORTS, identify_device (called once more by a later scan or load)
\* ------------------------------------------------------------------------
\* scan_port, given the outcome of the connect and what the stream sends
ScanPortWithBanner(port, outcome, read) ==
    IF outcome = "connected"
    THEN Ok(Some(ServiceWithBanner(port, GrabBanner(read))))
    ELSE ScanPort(port, outcome)

RECURSIVE HostServices(_, _)
\* the services scan_device_ports collects from a host over the ports
\* i..Len(COMMON_PORTS), in the order of the handles: host.open are the
\* ports that accept, host.read what each sends, the others refuse
HostServices(host, i) ==
    IF i > CommonPortsLen THEN <<>>
    ELSE LET port == COMMON_PORTS[i]
             r    == ScanPortWithBanner(port,
                        IF port \in host.open THEN "connected" ELSE "refused",
                        host.read[port])
         IN  (IF r.ok /\ r.value # None THEN <<Unwrap(r.value)>> ELSE <<>>)
                \o HostServices(host, i + 1)

\* the ports a host of this part may have open
OpenPortPool == {22, 53, 80, 8008, 62078, 11434}

\* what a server on the port sends first
Greeting(port) ==
    CASE port = 22    -> Some(<<"S", "S", "H", "-", "2", ".", "0", "-", "O", "p", "e", "n", "S", "S", "H", "_", "9", ".", "0">>)
      [] port = 80    -> Some(<<"H", "T", "T", "P", "/", "1", ".", "1", " ", "2", "0", "0", " ", "O", "K">>)
      [] port = 11434 -> Some(<<"O", "l", "l", "a", "m", "a", " ", "i", "s", " ", "r", "u", "n", "n", "i", "n", "g">>)
      [] OTHER        -> None

\* the hosts: any set of open ports, all of them silent, all of them
\* greeting, or greeting with one Ollama server answering on ports 80 and
\* 11434
Hosts ==
    {[open |-> open,
      read |-> [p \in OpenPortPool |->
                   CASE talk = "silent" -> None
                     [] talk = "one server" /\ p = 80 -> Greeting(11434)
                     [] OTHER -> Greeting(p)]] :
        open \in SUBSET OpenPortPool,
        talk \in {"silent", "greeting", "one server"}}

\* the MAC addresses of the devices: a randomized one, Apple, Dell, Samsung
\* and the broadcast address
DeviceMacs ==
    {<<"A", "A", ":", "B", "B", ":", "C", "C", ":", "D", "D", ":", "E", "E", ":", "0", "1">>,
     <<"0", ":", "2", "6", ":", "B", "B", ":", "1", "2", ":", "3", "4", ":", "5", "6">>,
     <<"0", "0", ":", "1", "4", ":", "2", "2", ":", "A", "B", ":", "C", "D", ":", "E", "F">>,
     <<"0", "0", ":", "2", "1", ":", "1", "9", ":", "A", "B", ":", "C", "D", ":", "E", "F">>,
     <<"F", "F", ":", "F", "F", ":", "F", "F", ":", "F", "F", ":", "F", "F", ":", "F", "F">>}

\* their hostnames
DeviceHostnames ==
    {None} \cup
    {Some(h) : h \in
        {<<"l", "i", "v", "i", "n", "g", "-", "r", "o", "o", "m", "-", "t", "v">>,
         <<"L", "i", "v", "i", "n", "g", "-", "R", "o", "o", "m", "-", "T", "V">>,
         <<"n", "a", "s", "-", "t", "v">>,
         <<"s", "w", "i", "t", "c", "h", "b", "o", "t", "-", "h", "u", "b">>,
         <<"m", "y", "-", "i", "p", "h", "o", "n", "e">>,
         <<"T", "h", "i", "s", " ", "d", "e", "v", "i", "c", "e">>,
         <<"s", "e", "a", "r", "c", "h", "b", "o", "x">>}}

\* the vendor a stored device record carries
StoredVendors == {None, Some(<<"H", "P">>), Some(<<"T", "P", "-", "L", "i", "n", "k">>)}

\* scan_device_ports and the store of its result in the device
pipeline_scan ==
    /\ ident_step = "new"
    /\ \E host \in Hosts :
          ident_trace' = Append(ident_trace,
              [ident_trace[1] EXCEPT !.services = HostServices(host, 1)])
    /\ ident_step' = "scanned"
    /\ UNCHANGED <<lookup_mac, lookup_result, probe_port, probe_banner,
                   probe_service>>
    /\ UNCHANGED <<coordVars, scanVars, portVars, discVars, listVars, dbVars, uiVars>>

\* identify_device on the device, a first and a second time
identify_device ==
    /\ ident_step \in {"scanned", "identified"}
    /\ ident_trace' = Append(ident_trace, IdentifyDevice(ident_trace[Len(ident_trace)]))
    /\ ident_step' = IF ident_step = "scanned" THEN "identified"
                     ELSE "identified twice"
    /\ UNCHANGED <<lookup_mac, lookup_result, probe_port, probe_banner,
                   probe_service>>
    /\ UNCHANGED <<coordVars, scanVars, portVars, discVars, listVars, dbVars, uiVars>>

PipelineInit ==
    /\ \E mac \in DeviceMacs, h \in DeviceHostnames, v \in StoredVendors :
          ident_trace = <<[Device(mac, "192.168.1.10") EXCEPT !.hostname = h,
                                                              !.vendor = v]>>
    /\ ident_step = "new"

\* the variables of the pipeline while another part is under study
PipelineUnused ==
    /\ ident_trace = <<>>
    /\ ident_step = "new"

\* the variables of this part of the program while another is under study
IdentUnused == LookupUnused /\ ProbeUnused /\ PipelineUnused

\* ------------------------------------------------------------------------
\* scan_device_ports on a port list
\* ------------------------------------------------------------------------
\* scan_device_ports with any outcome of the connect to each port
scan_device_ports ==
    /\ port_list_result = None
    /\ \E probes \in [1..Len(port_list) -> ConnectOutcome] :
          port_list_result' = Some(ScanDevicePorts(port_list, probes))
    /\ UNCHANGED port_list
    /\ UNCHANGED <<coordVars, scanVars, portVars, discVars, identVars, dbVars, uiVars>>

\* the port lists: every list of up to MaxProbedPorts ports out of 0, 22
\* and 80, the empty list and the lists of zeros among them
PortLists ==
    UNION {[1..n -> {0, 22, 80}] : n \in 0..MaxProbedPorts}

ListInit ==
    /\ port_list \in PortLists
    /\ port_list_result = None

\* the port-list variables while another part of the program is under study
ListUnused ==
    /\ port_list = <<>>
    /\ port_list_result = Some(Ok(<<>>))

\* ------------------------------------------------------------------------
\* Database: devices and device_services
\* ------------------------------------------------------------------------
\* A row is a record of its columns, without the timestamps, network_bssid
\* (a COALESCE column like hostname) and the id of a service row.  Every
\* statement is taken to succeed; a statement that fails returns Err and
\* leaves the tables as they are.

\* the arguments of the upsert_device calls: a MAC in lower and in upper
\* case with every column passed, with none, and with the hostname alone,
\* and a second MAC
DeviceCalls ==
    {[mac_address |-> mac, ip_address |-> "10.0.0.5", hostname |-> a[1],
      vendor |-> a[2], device_type |-> a[3], custom_name |-> a[4]] :
        mac \in {<<"a", "b">>, <<"A", "B">>},
        a \in {<<Some("nas"), Some("Synology"), "NAS", Some("Attic")>>,
               <<None, None, "Unknown", None>>,
               <<Some("nas"), None, "NAS", None>>}}
    \cup {[mac_address |-> <<"c", "d">>, ip_address |-> "10.0.0.6",
           hostname |-> Some("tv"), vendor |-> Some("Samsung"),
           device_type |-> "Smart TV", custom_name |-> None]}

\* the arguments of the upsert_device_service calls
ServiceCalls ==
    {[device_id |-> 1, port |-> 22, protocol |-> "TCP",
      service_name |-> Some("SSH"), banner |-> b, detected_agent |-> None] :
        b \in {None, Some("SSH-2.0-OpenSSH_9.0")}}
    \cup {[device_id |-> 1, port |-> 80, protocol |-> "TCP",
           service_name |-> Some("HTTP"), banner |-> None,
           detected_agent |-> None]}

\* Database::upsert_device
upsert_device ==
    /\ Len(db_log) < MaxDbCalls
    /\ \E c \in DeviceCalls :
          LET mac_upper == ToUppercase(c.mac_address)
              found     == {r \in db_devices : r.mac_address = mac_upper}
          IN  IF found # {}
              THEN \* rows.next() is a row: UPDATE .. WHERE id = ?
                   LET id == (CHOOSE r \in found : TRUE).id
                   IN  /\ db_devices' =
                             {IF r.id = id
                              THEN [r EXCEPT
                                      !.ip_address  = c.ip_address,
                                      !.hostname    = Coalesce(c.hostname, r.hostname),
                                      !.vendor      = Coalesce(c.vendor, r.vendor),
                                      !.device_type = c.device_type,
                                      !.custom_name = Coalesce(c.custom_name, r.custom_name)]
                              ELSE r : r \in db_devices}
                       /\ db_seq' = db_seq
                       /\ db_log' = Append(db_log,
                             [op |-> "upsert_device", args |-> c, result |-> Ok(id)])
              ELSE \* INSERT with id nextval('seq_devices_id'), then the
                   \* SELECT of the id by mac_upper
                   LET row == [id |-> db_seq, mac_address |-> mac_upper,
                               ip_address |-> c.ip_address,
                               hostname |-> c.hostname, vendor |-> c.vendor,
                               device_type |-> c.device_type,
                               custom_name |-> c.custom_name]
                       rows == db_devices \cup {row}
                   IN  /\ db_devices' = rows
                       /\ db_seq' = db_seq + 1
                       /\ db_log' = Append(db_log,
                             [op |-> "upsert_device", args |-> c,
                              result |-> Ok((CHOOSE r \in rows :
                                               r.mac_address = mac_upper).id)])
    /\ UNCHANGED db_services
    /\ UNCHANGED <<coordVars, scanVars, portVars, discVars, identVars, listVars,
                   uiVars>>

\* Database::upsert_device_service: INSERT .. ON CONFLICT (device_id, port,
\* protocol) DO UPDATE
upsert_device_service ==
    /\ Len(db_log) < MaxDbCalls
    /\ \E c \in ServiceCalls :
          LET conflict == {r \in db_services : /\ r.device_id = c.device_id
                                               /\ r.port = c.port
                                               /\ r.protocol = c.protocol}
          IN  /\ db_services' =
                    IF conflict = {} THEN db_services \cup {c}
                    ELSE {IF r \in conflict
                          THEN [r EXCEPT
                                  !.service_name   = Coalesce(c.service_name, r.service_name),
                                  !.banner         = Coalesce(c.banner, r.banner),
                                  !.detected_agent = Coalesce(c.detected_agent, r.detected_agent)]
                          ELSE r : r \in db_services}
              /\ db_log' = Append(db_log,
                    [op |-> "upsert_device_service", args |-> c, result |-> Ok(<<>>)])
    /\ UNCHANGED <<db_devices, db_seq>>
    /\ UNCHANGED <<coordVars, scanVars, portVars, discVars, identVars, listVars,
                   uiVars>>

\* the tables after init_schema; also their value while another part of
\* the program is under study
DbUnused ==
    /\ db_devices = {}
    /\ db_services = {}
    /\ db_seq = 1
    /\ db_log = <<>>

\* ------------------------------------------------------------------------
\* Specification of the coordinator with its scan threads
\* ------------------------------------------------------------------------
\* App::new without a database: nothing selected, no dialog, no device
UiUnused ==
    /\ selected_device_index = 0
    /\ show_rename_dialog = FALSE
    /\ rename_input = <<>>
    /\ custom_names = <<>>
    /\ db = None
    /\ panicked = FALSE
    /\ renamed = <<>>

CoordInit ==
    /\ device_scan_progress = None
    /\ device_scan_receiver = None
    /\ devices = DeviceList(0, 0)
    /\ status_message = None
    /\ SCANNED_DEVICES = None
    /\ thread = [i \in ScanIds |-> [pc |-> "unspawned", discovery |-> "pending", n |-> 0, k |-> 0]]
    /\ progress_chan = [i \in ScanIds |-> <<>>]
    /\ std_chan = [i \in ScanIds |-> <<>>]
    /\ emitted = [i \in ScanIds |-> <<>>]
    /\ log = <<>>
    /\ cancelled = {}
    /\ discarded = <<>>
    /\ delivered = 0

Init == CoordInit /\ ScanUnused /\ PortUnused /\ DiscUnused /\ IdentUnused
    /\ ListUnused /\ DbUnused /\ UiUnused

Next ==
    \/ start_device_scan
    \/ cancel_device_scan
    \/ check_device_scan_progress
    \/ \E id \in ScanIds : ThreadDiscoveryStart(id)
    \/ \E id \in ScanIds : ThreadDiscoveryFail(id)
    \/ \E id \in ScanIds : ThreadDiscoveryDone(id)
    \/ \E id \in ScanIds : ThreadPortScan(id)
    \/ \E id \in ScanIds : ThreadIdentify(id)
    \/ \E id \in ScanIds : ThreadComplete(id)
    \/ \E id \in ScanIds : ThreadStore(id)
    \/ \E id \in ScanIds : ThreadExit(id)
    \/ \E id \in ScanIds : Forward(id)

Spec == Init /\ [][Next]_vars

\* ------------------------------------------------------------------------
\* Specification of the coordinator alone: the std channel of the current
\* scan is fed by the environment with progress events in any order
\* ------------------------------------------------------------------------
\* an event of the given phase arrives on the receiver's channel; its
\* ports_scanned field numbers the events, so that no two are equal
Deliver ==
    /\ device_scan_receiver # None
    /\ delivered < MaxEvents
    /\ \E phase \in ScanPhase :
          std_chan' = [std_chan EXCEPT ![Unwrap(device_scan_receiver)] =
                          Append(@, ScanProgress(phase, 0, None, delivered + 1, 0))]
    /\ delivered' = delivered + 1
    /\ UNCHANGED <<device_scan_progress, device_scan_receiver, devices,
                   status_message, SCANNED_DEVICES, thread, progress_chan,
                   emitted, log, cancelled, discarded>>
    /\ UNCHANGED <<scanVars, portVars, discVars, identVars, listVars,
                   dbVars, uiVars>>

NextCoord ==
    \/ start_device_scan
    \/ cancel_device_scan
    \/ check_device_scan_progress
    \/ Deliver

SpecCoord == Init /\ [][NextCoord]_vars

\* ------------------------------------------------------------------------
\* Properties of the coordinator
\* ------------------------------------------------------------------------
LogPhases == [i \in 1..Len(log) |-> log[i].ev.phase]

\* the i-th event the receiver took changed the coordinator's progress
Applied(i) == log[i].after # log[i].before

\* C1: a non-Complete event replaces the held progress exactly when its
\* phase ordinal is not smaller than the held one and is dropped otherwise,
\* so the held phase never decreases; of the delivery order Discovery,
\* PortScan, Discovery, Identification, PortScan, Complete the events
\* 1, 2, 4 and 6 are applied and 3 and 5 are not.
StaleProgressSuppressed ==
    /\ \A i \in 1..Len(log) :
          log[i].ev.phase # "Complete" =>
             /\ log[i].before # None
             /\ IF PhaseOrd(log[i].ev.phase) >= PhaseOrd(Unwrap(log[i].before).phase)
                THEN log[i].after = Some(log[i].ev)
                ELSE log[i].after = log[i].before
             /\ PhaseOrd(Unwrap(log[i].after).phase)
                    >= PhaseOrd(Unwrap(log[i].before).phase)
    /\ LogPhases = <<"Discovery", "PortScan", "Discovery", "Identification",
                     "PortScan", "Complete">>
          => [i \in 1..6 |-> Applied(i)] = <<TRUE, TRUE, FALSE, TRUE, FALSE, TRUE>>

\* the delivery order of the example has been taken in full
StaleProgressSuppressedWitness ==
    LogPhases = <<"Discovery", "PortScan", "Discovery", "Identification",
                  "PortScan", "Complete">>

\* C2: a Complete event is accepted whatever phase is held: it clears
\* device_scan_progress and device_scan_receiver, and nothing queued behind
\* it is taken for that scan.
CompleteAlwaysAccepted ==
    \A i \in 1..Len(log) :
       log[i].ev.phase = "Complete" =>
          /\ log[i].after = None
          /\ i = Len(log)
          /\ device_scan_progress = None
          /\ device_scan_receiver = None
          /\ \A j \in 1..Len(discarded) :
                \A k \in 1..Len(log) : log[k].ev # discarded[j]

\* a Complete was taken while Identification was held and with events
\* queued behind it
CompleteAlwaysAcceptedWitness ==
    /\ log # <<>>
    /\ log[Len(log)].ev.phase = "Complete"
    /\ log[Len(log)].before # None
    /\ Unwrap(log[Len(log)].before).phase = "Identification"
    /\ discarded # <<>>

\* C3: the device list of a scan that cancel_device_scan ended never becomes
\* App.devices.
CancelledNeverSurfaced == devices.scan \notin cancelled

\* C4: when the receiver takes the Complete event of a scan, the device list
\* of that same scan is installed as App.devices.
CompleteInstallsOwnResult ==
    \A i \in 1..Len(log) :
       log[i].ev.phase = "Complete" => log[i].installed.scan = Unwrap(log[i].rx)

\* the scan threads still running their pipeline (Complete not yet sent)
RunningPipelines ==
    {id \in ScanIds :
        thread[id].pc \in {"spawned", "discovering", "portscan", "identified"}}

\* C5: at most one scan pipeline is running at any time.
SingleFlight == Cardinality(RunningPipelines) <= 1

\* C6: the events one scan thread sends are Discovery with 0 devices,
\* Discovery with n devices, one PortScan event per device, one
\* Identification event with n devices and one Complete event, in this
\* order, and a thread that got past the Complete send has sent them all.
EmittedInOrder ==
    \A id \in ScanIds :
       LET es == emitted[id]
           n  == thread[id].n
       IN  /\ Len(es) >= 1 =>
                es[1].phase = "Discovery" /\ es[1].devices_found = 0
           /\ Len(es) >= 2 =>
                /\ thread[id].discovery = "Ok"
                /\ Len(es) <= n + 4
                /\ es[2].phase = "Discovery" /\ es[2].devices_found = n
                /\ \A i \in 3..Len(es) :
                      /\ (i <= n + 2) => es[i].phase = "PortScan"
                      /\ (i = n + 3) =>
                            es[i].phase = "Identification" /\ es[i].devices_found = n
                      /\ (i = n + 4) => es[i].phase = "Complete"
           /\ \A i \in 2..Len(es) : PhaseOrd(es[i - 1].phase) <= PhaseOrd(es[i].phase)
           /\ (thread[id].discovery = "Ok" /\ thread[id].pc \in {"store", "stored", "done"})
                => Len(es) = n + 4

\* a thread that discovered MaxDevices devices ran to its end
EmittedInOrderWitness ==
    \E id \in ScanIds :
       /\ thread[id].pc = "done"
       /\ thread[id].discovery = "Ok"
       /\ thread[id].n = MaxDevices
       /\ Len(emitted[id]) = MaxDevices + 4

\* ------------------------------------------------------------------------
\* Specification of scan_devices_ports
\* ------------------------------------------------------------------------
CoordUnused == CoordInit

InitScan ==
    /\ ScanInit /\ completion = None
    /\ CoordUnused /\ PortUnused /\ DiscUnused /\ IdentUnused
    /\ ListUnused /\ DbUnused /\ UiUnused

NextScan ==
    \/ ScanSpawn
    \/ \E i \in 1..Len(scan_devices) : ScanTaskFinish(i)
    \/ ScanAwait
    \/ ScanReturn

SpecScan == InitScan /\ [][NextScan]_vars

\* ------------------------------------------------------------------------
\* Specification of scan_device_ports
\* ------------------------------------------------------------------------
InitPorts == PortInit /\ CoordUnused /\ ScanUnused /\ DiscUnused /\ IdentUnused
    /\ ListUnused /\ DbUnused /\ UiUnused

NextPorts ==
    \/ PortSpawn
    \/ PortTaskFinish
    \/ PortAwait
    \/ PortReturn

SpecPorts == InitPorts /\ [][NextPorts]_vars

\* ------------------------------------------------------------------------
\* Specification of discover_devices
\* ------------------------------------------------------------------------
InitDisc == DiscInit /\ CoordUnused /\ ScanUnused /\ PortUnused /\ IdentUnused
    /\ ListUnused /\ DbUnused /\ UiUnused

NextDisc == discover_devices

SpecDisc == InitDisc /\ [][NextDisc]_vars

\* ------------------------------------------------------------------------
\* Properties of scan_devices_ports
\* ------------------------------------------------------------------------
\* the device tasks spawned and not finished
InFlight == {i \in 1..Len(scan_devices) : task[i].status = "running"}

\* the chunk of devices.chunks_mut(MAX_CONCURRENT_DEVICES) a device is in
ChunkOf(i) == (i - 1) \div MAX_CONCURRENT_DEVICES

\* C7: never more than MAX_CONCURRENT_DEVICES device scans are in flight,
\* and a device scan of a chunk has started only if every device scan of
\* the chunks before it has finished.
DeviceConcurrencyBounded ==
    /\ Cardinality(InFlight) <= MAX_CONCURRENT_DEVICES
    /\ \A i, j \in 1..Len(scan_devices) :
          (task[i].status # "unspawned" /\ ChunkOf(j) < ChunkOf(i))
             => task[j].status = "finished"

\* of 25 devices the ten of the second chunk are all in flight
DeviceConcurrencyBoundedWitness ==
    /\ Len(scan_devices) = 25
    /\ InFlight = 11..20

\* the ports of a device's services
ServicePorts(d) == {d.services[k].port : k \in 1..Len(d.services)}

\* C9: when scan_devices_ports has returned, it has returned Ok, and no port
\* whose connect to a device was refused, failed or timed out is among that
\* device's services; a device whose every probe failed has no services.
TimeoutAsClosed ==
    scan_result # None =>
       /\ Unwrap(scan_result).ok
       /\ \A i \in 1..Len(scan_devices) :
             /\ \A p \in 1..CommonPortsLen :
                   task[i].probes[p] # "connected"
                      => COMMON_PORTS[p] \notin ServicePorts(scan_devices[i])
             /\ (\A p \in 1..CommonPortsLen : task[i].probes[p] # "connected")
                   => scan_devices[i].services = <<>>

\* the same, for the device lists in which no two devices share a MAC
TimeoutAsClosedDistinctMacs ==
    (\A i, j \in 1..Len(scan_devices) :
        scan_devices[i].mac_address = scan_devices[j].mac_address => i = j)
    => TimeoutAsClosed

\* ------------------------------------------------------------------------
\* Properties of scan_device_ports
\* ------------------------------------------------------------------------
\* C8: within one scan_device_ports call never more than
\* MAX_CONCURRENT_PORTS connect attempts are in flight, whatever the length
\* of the port list.
PortConcurrencyBounded ==
    /\ PortsInFlight >= 0
    /\ PortsInFlight <= MAX_CONCURRENT_PORTS

\* of a 2000-port list, all fifty ports of a later chunk are in flight
PortConcurrencyBoundedWitness ==
    /\ port_count = DEEP_SCAN_CHUNK
    /\ port_chunk_start > 0
    /\ PortsInFlight = MAX_CONCURRENT_PORTS

\* ------------------------------------------------------------------------
\* Properties of discover_devices
\* ------------------------------------------------------------------------
\* the device list discover_devices returned
Discovered == Unwrap(discovered).result.value

\* the lines of the ARP table that parse_arp_cache does not discard for
\* their MAC being the placeholder or the broadcast address
KeptLines ==
    SelectSeq(arp_table.value,
              LAMBDA l : l.mac # IncompleteMac /\ l.mac # BroadcastMac)

\* C10: the list discover_devices returns holds at most one device per
\* normalized MAC, and a device taken from the ARP table carries the address
\* of the first line with its MAC.
DedupInvariant ==
    (discovered # None /\ Unwrap(discovered).result.ok) =>
       /\ \A i, j \in 1..Len(Discovered) :
             ToUppercase(Discovered[i].mac_address)
                = ToUppercase(Discovered[j].mac_address) => i = j
       /\ \A i \in 1..Len(Discovered) :
             \A k \in 1..Len(KeptLines) :
                (/\ ToUppercase(KeptLines[k].mac) = ToUppercase(Discovered[i].mac_address)
                 /\ \A h \in 1..(k - 1) :
                       ToUppercase(KeptLines[h].mac) # ToUppercase(KeptLines[k].mac))
                => Discovered[i].ip_address = KeptLines[k].ip

\* the same, when no gateway is resolved
DedupInvariantWithoutGateway == (route_table = Ok(None)) => DedupInvariant

\* ------------------------------------------------------------------------
\* Specification of lookup_vendor
\* ------------------------------------------------------------------------
InitLookup ==
    /\ LookupInit /\ ProbeUnused /\ PipelineUnused
    /\ CoordUnused /\ ScanUnused /\ PortUnused /\ DiscUnused
    /\ ListUnused /\ DbUnused /\ UiUnused

NextLookup == lookup_vendor

SpecLookup == InitLookup /\ [][NextLookup]_vars

\* ------------------------------------------------------------------------
\* Specification of scan_port on a stream that connected
\* ------------------------------------------------------------------------
InitProbe ==
    /\ ProbeInit /\ LookupUnused /\ PipelineUnused
    /\ CoordUnused /\ ScanUnused /\ PortUnused /\ DiscUnused
    /\ ListUnused /\ DbUnused /\ UiUnused

NextProbe == scan_port

SpecProbe == InitProbe /\ [][NextProbe]_vars

\* ------------------------------------------------------------------------
\* Specification of the pipeline on one device
\* ------------------------------------------------------------------------
InitPipeline ==
    /\ PipelineInit /\ LookupUnused /\ ProbeUnused
    /\ CoordUnused /\ ScanUnused /\ PortUnused /\ DiscUnused
    /\ ListUnused /\ DbUnused /\ UiUnused

NextPipeline ==
    \/ pipeline_scan
    \/ identify_device

SpecPipeline == InitPipeline /\ [][NextPipeline]_vars

\* ------------------------------------------------------------------------
\* Properties of identify_device
\* ------------------------------------------------------------------------
\* the device after the first and after the second identify_device
IdentifiedOnce == ident_trace[3]
IdentifiedTwice == ident_trace[4]

\* C11: classification idempotence: for every device (any hostname, vendor
\* set or unset, any services) a second identify_device leaves deviceType,
\* vendor and detectedAgents as the first one set them.
ClassificationIdempotent ==
    ident_step = "identified twice" =>
        /\ IdentifiedTwice.device_type = IdentifiedOnce.device_type
        /\ IdentifiedTwice.vendor = IdentifiedOnce.vendor
        /\ IdentifiedTwice.detected_agents = IdentifiedOnce.detected_agents

\* a device whose vendor the first call looked up, whose type that vendor
\* decided and which runs an agent, identified twice
ClassificationIdempotentWitness ==
    /\ ident_step = "identified twice"
    /\ ident_trace[2].vendor = None
    /\ IdentifiedOnce.vendor = Some(<<"A", "p", "p", "l", "e">>)
    /\ IdentifiedOnce.device_type = "Phone"
    /\ IdentifiedTwice.detected_agents = <<"Ollama">>

\* the hostname of a device, lower-cased; empty when it has none
LowerHostname(d) ==
    ToLowercase(IF d.hostname # None THEN Unwrap(d.hostname) ELSE <<>>)

\* the ports of the services of a device
OpenPorts(d) == {d.services[k].port : k \in 1..Len(d.services)}

\* C12: cascade priority: whenever the hostname of a device matches a
\* hostname rule, identify_device gives it the type of the first hostname
\* rule that matches, whatever its open ports and its vendor are: the type
\* is the one the same device gets with no service and no vendor.  The
\* hostname "living-room-tv" gives SmartTV also with SSH(22) open.
CascadePriority ==
    ident_step = "identified" =>
        LET d == IdentifiedOnce
        IN  /\ HostnameType(LowerHostname(d)) # None =>
                  /\ d.device_type = Unwrap(HostnameType(LowerHostname(d)))
                  /\ d.device_type =
                        InferDeviceType([d EXCEPT !.services = <<>>, !.vendor = None])
            /\ d.hostname = Some(<<"l", "i", "v", "i", "n", "g", "-", "r", "o", "o", "m", "-", "t", "v">>) => d.device_type = "SmartTV"
            /\ d.hostname = Some(<<"L", "i", "v", "i", "n", "g", "-", "R", "o", "o", "m", "-", "T", "V">>) => d.device_type = "SmartTV"
            /\ d.hostname = Some(<<"n", "a", "s", "-", "t", "v">>) => d.device_type = "SmartTV"
            /\ d.hostname = Some(<<"s", "w", "i", "t", "c", "h", "b", "o", "t", "-", "h", "u", "b">>) => d.device_type = "IoT"
            /\ d.hostname = Some(<<"m", "y", "-", "i", "p", "h", "o", "n", "e">>) => d.device_type = "Phone"

\* "living-room-tv" with SSH(22) open and an Apple MAC, classified SmartTV
CascadePriorityWitness ==
    /\ ident_step = "identified"
    /\ IdentifiedOnce.hostname = Some(<<"l", "i", "v", "i", "n", "g", "-", "r", "o", "o", "m", "-", "t", "v">>)
    /\ 22 \in OpenPorts(IdentifiedOnce)
    /\ IdentifiedOnce.vendor = Some(<<"A", "p", "p", "l", "e">>)
    /\ IdentifiedOnce.device_type = "SmartTV"

\* ------------------------------------------------------------------------
\* Properties of lookup_vendor
\* ------------------------------------------------------------------------
\* C13: vendor normalization: lookup_vendor returns the same result for an
\* address whose single-digit octets lack the leading zero, for the padded
\* form, and for the same prefix without separators or in lower case:
\* the result for an address in one form is the result for every other
\* form of it.
VendorNormalization ==
    \A p \in OuiPrefixes, f \in MacForms :
        (lookup_result # None /\ lookup_mac = RenderMac(p, f)) =>
            \A g \in MacForms :
                LookupVendor(RenderMac(p, g)) = Unwrap(lookup_result)

\* "0:26:BB:12:34:56" looked up as Apple
VendorNormalizationWitness ==
    /\ lookup_mac = <<"0", ":", "2", "6", ":", "B", "B", ":", "1", "2", ":", "3", "4", ":", "5", "6">>
    /\ lookup_result = Some(Some(<<"A", "p", "p", "l", "e">>))

ProbedBanner == Unwrap(probe_service).banner
ProbedAgent == Unwrap(probe_service).detected_agent

\* the agent fingerprints, lower case
AgentFingerprints ==
    {<<"o", "p", "e", "n", "c", "l", "a", "w">>, <<"o", "p", "e", "n", "-", "c", "l", "a", "w">>,
     <<"c", "l", "a", "u", "d", "e">>, <<"a", "n", "t", "h", "r", "o", "p", "i", "c">>,
     <<"c", "l", "a", "w", "d", "b", "o", "t">>, <<"c", "l", "a", "w", "d">>,
     <<"m", "o", "l", "d", "b", "o", "t">>, <<"o", "l", "l", "a", "m", "a">>,
     <<"l", "l", "a", "m", "a">>, <<"g", "g", "m", "l">>, <<"o", "p", "e", "n", "a", "i">>,
     <<"v", "l", "l", "m">>,
     <<"t", "e", "x", "t", "-", "g", "e", "n", "e", "r", "a", "t", "i", "o", "n">>,
     <<"c", "u", "r", "s", "o", "r">>, <<"a", "i", "d", "e", "r">>,
     <<"c", "o", "n", "t", "i", "n", "u", "e">>, <<"c", "o", "p", "i", "l", "o", "t">>,
     <<"c", "o", "d", "e", "i", "u", "m">>, <<"t", "a", "b", "n", "i", "n", "e">>}

\* the fingerprints detect_agent tests before "ollama"
FingerprintsBeforeOllama ==
    {<<"o", "p", "e", "n", "c", "l", "a", "w">>, <<"o", "p", "e", "n", "-", "c", "l", "a", "w">>,
     <<"c", "l", "a", "u", "d", "e">>, <<"a", "n", "t", "h", "r", "o", "p", "i", "c">>,
     <<"c", "l", "a", "w", "d">>, <<"m", "o", "l", "d", "b", "o", "t">>}

\* the banner holds one of the fingerprints, in any case
MatchesAny(banner, fingerprints) ==
    \E fp \in fingerprints : Contains(ToLowercase(banner), fp)

\* the port table of agents
PortTableAgent(port) ==
    CASE port = 11434 -> Some("Ollama")
      [] port = 8501 -> Some("Aider (Streamlit)")
      [] port \in {18789, 18793} -> Some("OpenClaw")
      [] OTHER -> None

\* a banner with both "openclaw" and "clawdbot" gives "Clawdbot (OpenClaw)"
\* and the port table answers when the banner is absent or matches no
\* fingerprint
ClawdbotAndPortTable ==
    /\ (ProbedBanner # None
            /\ Contains(Unwrap(ProbedBanner), <<"o", "p", "e", "n", "c", "l", "a", "w">>)
            /\ Contains(Unwrap(ProbedBanner), <<"c", "l", "a", "w", "d", "b", "o", "t">>))
          => ProbedAgent = Some("Clawdbot (OpenClaw)")
    /\ (ProbedBanner = None \/ ~MatchesAny(Unwrap(ProbedBanner), AgentFingerprints))
          => ProbedAgent = PortTableAgent(probe_port)
    /\ (ProbedBanner # None /\ MatchesAny(Unwrap(ProbedBanner), AgentFingerprints))
          => \A q \in ProbePorts : detect_agent(q, ProbedBanner) = ProbedAgent

\* C15 as stated: banner-derived agent detection: a banner containing
\* "Ollama" yields the agent "Ollama" on every port; a banner with both
\* "openclaw" and "clawdbot" yields "Clawdbot (OpenClaw)"; the port table
\* supplies the result only when the banner is absent or matches no agent
\* fingerprint.
BannerAgentDetection ==
    probe_service # None =>
        /\ (ProbedBanner # None /\ Contains(Unwrap(ProbedBanner), <<"O", "l", "l", "a", "m", "a">>))
              => ProbedAgent = Some("Ollama")
        /\ ClawdbotAndPortTable

\* C15 as amended: a banner containing "Ollama" and none of the
\* fingerprints tested before it (openclaw, open-claw, claude, anthropic,
\* clawd, moldbot) yields the agent "Ollama" on every port; the rest as
\* stated.
BannerAgentDetectionAmended ==
    probe_service # None =>
        /\ (ProbedBanner # None /\ Contains(Unwrap(ProbedBanner), <<"O", "l", "l", "a", "m", "a">>)
                /\ ~MatchesAny(Unwrap(ProbedBanner), FingerprintsBeforeOllama))
              => ProbedAgent = Some("Ollama")
        /\ ClawdbotAndPortTable

\* a banner with "Ollama" read on the Streamlit port, agent Ollama
BannerAgentDetectionWitness ==
    /\ probe_service # None
    /\ probe_port = 8501
    /\ ProbedBanner = Some(<<"O", "l", "l", "a", "m", "a", " ", "h", "e", "l", "l", "o">>)
    /\ ProbedAgent = Some("Ollama")

\* ------------------------------------------------------------------------
\* The end-to-end scenario
\* ------------------------------------------------------------------------
\* the scenario: the device AA:BB:CC:DD:EE:01 without hostname, as
\* discovery returns it, found with port 22 open and greeting
\* "SSH-2.0-OpenSSH_9.0" and every other port, 80 among them, closed
ScenarioScanned ==
    /\ ident_step # "new"
    /\ ident_trace[1].mac_address = <<"A", "A", ":", "B", "B", ":", "C", "C", ":", "D", "D", ":", "E", "E", ":", "0", "1">>
    /\ ident_trace[1].hostname = None
    /\ ident_trace[1].vendor = None
    /\ OpenPorts(ident_trace[2]) = {22}
    /\ \A k \in 1..Len(ident_trace[2].services) :
          ident_trace[2].services[k].banner = Some(<<"S", "S", "H", "-", "2", ".", "0", "-", "O", "p", "e", "n", "S", "S", "H", "_", "9", ".", "0">>)

\* C16: end-to-end scenario: for the single device AA:BB:CC:DD:EE:01
\* without hostname, on which port 22 is open with banner
\* "SSH-2.0-OpenSSH_9.0" and port 80 is closed, the pipeline yields exactly
\* one service, on port 22, named "SSH" and without agent; the device has
\* no detected agents and the type of the SSH/RDP rule: Computer, its
\* vendor being none of Dell, Lenovo, HP.
EndToEndScenario ==
    (ScenarioScanned /\ ident_step = "identified") =>
        LET d == IdentifiedOnce
        IN  /\ Len(d.services) = 1
            /\ d.services[1].port = 22
            /\ d.services[1].state = "Open"
            /\ d.services[1].service_name = Some("SSH")
            /\ d.services[1].detected_agent = None
            /\ d.detected_agents = <<>>
            /\ d.vendor \notin {Some(<<"D", "e", "l", "l">>), Some(<<"L", "e", "n", "o", "v", "o">>), Some(<<"H", "P">>)}
            /\ d.device_type = "Computer"

\* the scenario, run to the end of identify_device
EndToEndScenarioWitness ==
    /\ ScenarioScanned
    /\ ident_step = "identified"
    /\ IdentifiedOnce.vendor = Some(<<"P", "r", "i", "v", "a", "t", "e", "/", "R", "a", "n", "d", "o", "m", "i", "z", "e", "d">>)
    /\ IdentifiedOnce.device_type = "Computer"

\* ------------------------------------------------------------------------
\* Specification of the coordinator with its scan threads, with the
\* scheduling the program has: the event loop calls
\* check_device_scan_progress on every tick, a spawned thread and the
\* forwarder task run on.  What the user does (start, cancel) may never
\* happen.
\* ------------------------------------------------------------------------
\* the next step of scan thread id
ThreadStep(id) ==
    \/ ThreadDiscoveryStart(id)
    \/ ThreadDiscoveryFail(id)
    \/ ThreadDiscoveryDone(id)
    \/ ThreadPortScan(id)
    \/ ThreadIdentify(id)
    \/ ThreadComplete(id)
    \/ ThreadStore(id)
    \/ ThreadExit(id)

Fairness ==
    /\ WF_vars(check_device_scan_progress)
    /\ \A id \in ScanIds : WF_vars(ThreadStep(id))
    /\ \A id \in ScanIds : WF_vars(Forward(id))

SpecLive == Init /\ [][Next]_vars /\ Fairness

\* ------------------------------------------------------------------------
\* Properties of a scan whose discovery fails or finds nothing
\* ------------------------------------------------------------------------
\* the phases of the events thread id has sent
EmittedPhases(id) == {emitted[id][k].phase : k \in 1..Len(emitted[id])}

\* C17: a fatal discovery failure aborts the scan and is surfaced: if
\* discovery returns an error, the scan emits no PortScan, Identification
\* or Complete event, and the coordinator that waits for the scan leaves
\* the scanning state (device_scan_progress becomes None) without a
\* cancel by the user.
DiscoveryFailureSurfaced ==
    \A id \in ScanIds :
        /\ [](thread[id].discovery = "Err" => EmittedPhases(id) \subseteq {"Discovery"})
        /\ [](  (thread[id].discovery = "Err" /\ device_scan_receiver = Some(id))
               => <>(device_scan_progress = None))

\* C18: a scan that discovers zero devices is not an error: it runs to
\* Complete and is reported as a completed scan with 0 devices, the device
\* list empty, which tells it from a scan ended by cancellation: once the
\* receiver has taken the Complete event of a scan that found no device,
\* App.devices is empty and the status reports 0 devices.  (That a
\* cancelled scan installs no list is the statement of C3.)
EmptyScanReported ==
    (Len(log) > 0 /\ log[Len(log)].ev.phase = "Complete"
                  /\ log[Len(log)].ev.devices_found = 0)
        => (devices.len = 0 /\ status_message = Some(0))

\* ------------------------------------------------------------------------
\* Properties of discover_devices when one of its sources fails
\* ------------------------------------------------------------------------
\* the Result discover_devices returned
DiscoveryResult == Unwrap(discovered).result

\* C19: a self-IP resolution failure is not fatal: when the local address
\* of the host cannot be resolved, discover_devices still returns the device
\* list of the ARP table and the gateway lookup, with no device labelled as
\* this host.
SelfIpFailureNonFatal ==
    (discovered # None /\ ~local_info.ok /\ arp_table.ok /\ route_table.ok) =>
        /\ DiscoveryResult.ok
        /\ \A k \in 1..Len(DiscoveryResult.value) :
              DiscoveryResult.value[k].hostname = None

\* C20: discovery fails only if both the ARP table and the route table are
\* unreadable: with at least one of them readable (and the local address
\* resolved) discover_devices returns a device list, and an absent default
\* gateway is no error.
FailsOnlyIfBothUnreadable ==
    (discovered # None /\ local_info.ok /\ (arp_table.ok \/ route_table.ok)) =>
        DiscoveryResult.ok

\* ------------------------------------------------------------------------
\* Specification of scan_device_ports on a port list
\* ------------------------------------------------------------------------
InitList ==
    /\ ListInit /\ DbUnused /\ UiUnused /\ IdentUnused
    /\ CoordUnused /\ ScanUnused /\ PortUnused /\ DiscUnused

SpecList == InitList /\ [][scan_device_ports]_vars

\* ------------------------------------------------------------------------
\* Properties of scan_device_ports on a port list
\* ------------------------------------------------------------------------
\* the port list is empty or holds only port 0
InvalidPortList(ports) ==
    \A i \in 1..Len(ports) : ports[i] = 0

ValidPortListSucceeds ==
    (port_list_result # None /\ ~InvalidPortList(port_list)) =>
        Unwrap(port_list_result).ok

\* ------------------------------------------------------------------------
\* Specification of scan_devices_ports with the order of completion kept,
\* on the short device lists of a live network
\* ------------------------------------------------------------------------
InitCompletion ==
    /\ ScanInit /\ network = "live" /\ completion = Some(<<>>)
    /\ CoordUnused /\ PortUnused /\ DiscUnused /\ IdentUnused
    /\ ListUnused /\ DbUnused /\ UiUnused

SpecCompletion == InitCompletion /\ [][NextScan]_vars

\* ------------------------------------------------------------------------
\* Order of the PortScan events
\* ------------------------------------------------------------------------
\* no two devices of the list share a MAC, so an event names one device
DistinctMacs ==
    \A i, j \in 1..Len(scan_devices) :
       scan_devices[i].mac_address = scan_devices[j].mac_address => i = j

\* the places of the PortScan events that name device i
EventsOf(i) ==
    {k \in 1..Len(scan_events) :
        scan_events[k].current_device = Some(scan_devices[i].mac_address)}

\* the task of device b finished before the task of device a
FinishedBefore(b, a) ==
    \E x, y \in 1..Len(Unwrap(completion)) :
       /\ Unwrap(completion)[x] = b
       /\ Unwrap(completion)[y] = a
       /\ x < y

\* C22: PortScan events are delivered in the order in which the device
\* scans complete, not in list order: when the scan of device b finished
\* before that of device a, the event of b is emitted before the event of a,
\* also when a precedes b in the list.
CompletionOrderDelivery ==
    (completion # None /\ DistinctMacs) =>
        \A a, b \in 1..Len(scan_devices) :
           FinishedBefore(b, a) =>
              \A ka \in EventsOf(a) : \E kb \in EventsOf(b) : kb < ka

\* what the code does instead: the events come in list order
ListOrderDelivery ==
    DistinctMacs =>
        \A k \in 1..Len(scan_events) : EventsOf(k) = {k}

\* ------------------------------------------------------------------------
\* The agents of a device
\* ------------------------------------------------------------------------
\* the agents detected on the services of device d
ServiceAgents(d) ==
    {Unwrap(d.services[k].detected_agent) :
        k \in {j \in 1..Len(d.services) : d.services[j].detected_agent # None}}

\* C23: after identify_device the detected agents of the device are the
\* distinct agents of its services: every agent detected on a service is
\* listed, nothing else is, and no agent is listed twice, also when several
\* services report the same agent.
AgentsDistinct ==
    ident_step = "identified" =>
        LET agents == IdentifiedOnce.detected_agents
        IN  /\ {agents[k] : k \in 1..Len(agents)} = ServiceAgents(IdentifiedOnce)
            /\ \A i, j \in 1..Len(agents) : agents[i] = agents[j] => i = j

\* the part of C23 the code keeps: the agents listed are those of the
\* services, one entry per service with an agent, in the order of the services
AgentsOfServices ==
    ident_step = "identified" =>
        LET agents == IdentifiedOnce.detected_agents
        IN  /\ {agents[k] : k \in 1..Len(agents)} = ServiceAgents(IdentifiedOnce)
            /\ Len(agents) = Cardinality({j \in 1..Len(IdentifiedOnce.services) :
                                 IdentifiedOnce.services[j].detected_agent # None})

\* ------------------------------------------------------------------------
\* Specification of the upserts of Database
\* ------------------------------------------------------------------------
InitDb ==
    /\ DbUnused /\ UiUnused /\ ListUnused /\ IdentUnused
    /\ CoordUnused /\ ScanUnused /\ PortUnused /\ DiscUnused

NextDb ==
    \/ upsert_device
    \/ upsert_device_service

SpecDb == InitDb /\ [][NextDb]_vars

\* ------------------------------------------------------------------------
\* Properties of the upserts
\* ------------------------------------------------------------------------
\* the calls of the log made with operation op
CallsOf(calls, op) == {i \in 1..Len(calls) : calls[i].op = op}

\* no two device rows have the same MAC in any letter case, and no two
\* service rows the same (device_id, port, protocol)
OneRowPerKey(device_rows, service_rows) ==
    /\ \A r1, r2 \in device_rows :
          ToUppercase(r1.mac_address) = ToUppercase(r2.mac_address) => r1 = r2
    /\ \A r1, r2 \in service_rows :
          (r1.device_id = r2.device_id /\ r1.port = r2.port
              /\ r1.protocol = r2.protocol) => r1 = r2

\* every upsert_device call returned the id of the one row of its MAC, the
\* same for every call with that MAC in any letter case
SameId(device_rows, calls) ==
    /\ \A i \in CallsOf(calls, "upsert_device") :
          /\ calls[i].result.ok
          /\ \E r \in device_rows :
                /\ r.mac_address = ToUppercase(calls[i].args.mac_address)
                /\ r.id = calls[i].result.value
    /\ \A i, j \in CallsOf(calls, "upsert_device") :
          ToUppercase(calls[i].args.mac_address)
                = ToUppercase(calls[j].args.mac_address)
             => calls[i].result = calls[j].result

\* the step is a call that leaves in place every stored hostname, vendor,
\* custom name and banner for which it passes nothing
NothingErased ==
    LET c == db_log'[Len(db_log')]
    IN  /\ c.op = "upsert_device" =>
              \A r \in db_devices :
                 r.mac_address = ToUppercase(c.args.mac_address) =>
                    \E n \in db_devices' :
                       /\ n.id = r.id
                       /\ n.mac_address = r.mac_address
                       /\ c.args.hostname = None => n.hostname = r.hostname
                       /\ c.args.vendor = None => n.vendor = r.vendor
                       /\ c.args.custom_name = None => n.custom_name = r.custom_name
        /\ c.op = "upsert_device_service" =>
              \A r \in db_services :
                 (r.device_id = c.args.device_id /\ r.port = c.args.port
                     /\ r.protocol = c.args.protocol) =>
                    \E n \in db_services' :
                       /\ n.device_id = r.device_id
                       /\ n.port = r.port
                       /\ n.protocol = r.protocol
                       /\ c.args.banner = None => n.banner = r.banner

\* C24: the upserts are idempotent per key: after any calls there is one
\* device row per MAC (in any letter case) and upsert_device returned the
\* same id for it each time, there is one service row per (device_id, port,
\* protocol), and a call that passes no hostname, vendor, custom name or
\* banner leaves the stored one in place.
UpsertIdempotent ==
    [][/\ OneRowPerKey(db_devices', db_services')
       /\ SameId(db_devices', db_log')
       /\ NothingErased]_vars

\* upsert_device was called with a MAC in lower case and every column, then
\* with the same MAC in upper case and no column, and upsert_device_service
\* twice on port 22, with and then without a banner: one device row and one
\* service row, with the values of the first calls
UpsertIdempotentWitness ==
    /\ \E i, j \in CallsOf(db_log, "upsert_device") :
          /\ i < j
          /\ db_log[i].args.mac_address = <<"a", "b">>
          /\ db_log[i].args.hostname # None
          /\ db_log[j].args.mac_address = <<"A", "B">>
          /\ db_log[j].args.hostname = None
          /\ db_log[j].args.custom_name = None
    /\ \E i, j \in CallsOf(db_log, "upsert_device_service") :
          /\ i < j
          /\ db_log[i].args.port = 22 /\ db_log[i].args.banner # None
          /\ db_log[j].args.port = 22 /\ db_log[j].args.banner = None
    /\ Cardinality(db_devices) = 1
    /\ Cardinality(db_services) = 1
    /\ \A r \in db_devices : r.hostname = Some("nas") /\ r.custom_name = Some("Attic")
    /\ \A r \in db_services : r.banner # None

\* ------------------------------------------------------------------------
\* Accounting of the PortScan events
\* ------------------------------------------------------------------------
\* C25: scan_devices_ports emits one PortScan event per device; with n
\* devices the k-th event carries ports_scanned = k * |COMMON_PORTS|,
\* total_ports = n * |COMMON_PORTS| and devices_found = n, so ports_scanned
\* grows strictly, never exceeds total_ports and equals it on the last
\* event; current_device is the label of the device whose scan was just
\* awaited.
PortScanAccounting ==
    LET n == Len(scan_devices)
    IN  /\ Len(scan_events) <= n
        /\ scan_result # None => Len(scan_events) = n
        /\ \A k \in 1..Len(scan_events) :
              /\ scan_events[k].phase = "PortScan"
              /\ scan_events[k].ports_scanned = k * CommonPortsLen
              /\ scan_events[k].total_ports = n * CommonPortsLen
              /\ scan_events[k].devices_found = n
              /\ scan_events[k].ports_scanned <= scan_events[k].total_ports
              /\ k > 1 => scan_events[k - 1].ports_scanned
                              < scan_events[k].ports_scanned
              /\ k = n => scan_events[k].ports_scanned
                              = scan_events[k].total_ports
              /\ scan_events[k].current_device
                    = Some(scan_devices[k].mac_address)

\* a list of more than two chunks was scanned to its end
PortScanAccountingWitness ==
    /\ scan_result # None
    /\ Len(scan_devices) > 2 * MAX_CONCURRENT_DEVICES
    /\ Len(scan_events) = Len(scan_devices)
    /\ scan_events[Len(scan_events)].ports_scanned
          = Len(scan_devices) * CommonPortsLen

\* ------------------------------------------------------------------------
\* Specification of one scan that may find the least number of devices with
\* which the Discovery and PortScan events are more than the progress
\* channel holds.  The scan thread and the forwarder task are scheduled; the
\* coordinator may stop calling check_device_scan_progress at any time.
\* ------------------------------------------------------------------------
NextTerm ==
    \/ Next /\ \A id \in ScanIds \ {1} : thread'[id].pc = "unspawned"
    \/ ThreadDiscoveryFound(1, ProgressChannelCapacity - 1)

SpecTerm ==
    /\ Init /\ [][NextTerm]_vars
    /\ \A id \in ScanIds : WF_vars(ThreadStep(id)) /\ WF_vars(Forward(id))

\* ------------------------------------------------------------------------
\* Termination of a scan
\* ------------------------------------------------------------------------
\* C26: with the scan thread and the forwarder task scheduled fairly, every
\* scan whose discovery succeeds emits Complete in the end, whatever the
\* number of devices and the outcome of their probes, and also when the
\* coordinator has cancelled the scan and reads no more: the progress
\* channel of ProgressChannelCapacity events never holds the thread for ever.
ScanTerminates ==
    \A id \in ScanIds :
        [](thread[id].discovery = "Ok" => <>("Complete" \in EmittedPhases(id)))

\* a cancelled scan of more devices than the channel holds events has
\* emitted Complete, with the channel full behind it
ScanTerminatesWitness ==
    \E id \in ScanIds :
        /\ id \in cancelled
        /\ thread[id].n = ProgressChannelCapacity - 1
        /\ Len(progress_chan[id]) = ProgressChannelCapacity
        /\ "Complete" \in EmittedPhases(id)

\* scan_devices_ports on the short device lists of a live network, with its
\* tasks scheduled
SpecScanFair == SpecCompletion /\ WF_vars(NextScan)

\* the step of the scan thread that ThreadPortScan takes as one: with every
\* outcome of the connects (accepted, refused, timed out, address not
\* parsed, task lost) scan_devices_ports returns
PortScanReturns == <>(scan_result # None)

\* ------------------------------------------------------------------------
\* Specification of identify_device on devices that reach every rule of
\* infer_device_type
\* ------------------------------------------------------------------------
\* hostnames that match one hostname rule or several
RuleHostnames ==
    {<<"L", "G", "-", "w", "e", "b", "O", "S", "-", "T", "V">>,
     <<"x", "b", "o", "x", "-", "t", "v">>,
     <<"x", "b", "o", "x", "-", "o", "n", "e">>,
     <<"n", "i", "n", "t", "e", "n", "d", "o", "-", "s", "w", "i", "t", "c", "h">>,
     <<"s", "w", "i", "t", "c", "h", "b", "o", "t", "-", "h", "u", "b">>,
     <<"J", "o", "h", "n", "s", "-", "i", "P", "h", "o", "n", "e">>,
     <<"i", "p", "a", "d", "-", "d", "e", "s", "k", "t", "o", "p">>,
     <<"m", "a", "c", "b", "o", "o", "k", "-", "p", "r", "o">>,
     <<"m", "a", "c">>,
     <<"d", "e", "s", "k", "t", "o", "p", "-", "p", "r", "i", "n", "t", "e", "r">>,
     <<"a", "r", "c", "h", "-", "n", "a", "s">>,
     <<"s", "h", "e", "l", "l", "y", "-", "p", "l", "u", "g">>,
     <<"e", "s", "p", "3", "2", "-", "r", "o", "u", "t", "e", "r">>,
     <<"b", "r", "o", "t", "h", "e", "r", "-", "p", "r", "i", "n", "t", "e", "r">>,
     <<"h", "p", "-", "n", "a", "s">>,
     <<"d", "i", "s", "k", "s", "t", "a", "t", "i", "o", "n">>,
     <<"n", "a", "s", "-", "g", "a", "t", "e", "w", "a", "y">>,
     <<"u", "n", "i", "f", "i", "-", "a", "p">>}

\* the vendors stored with a device: one for every vendor rule, and one that
\* no rule names
RuleVendors ==
    {<<"A", "p", "p", "l", "e">>,
     <<"S", "a", "m", "s", "u", "n", "g">>,
     <<"L", "G", " ", "E", "l", "e", "c", "t", "r", "o", "n", "i", "c", "s">>,
     <<"R", "o", "k", "u">>,
     <<"N", "i", "n", "t", "e", "n", "d", "o">>,
     <<"S", "o", "n", "y">>,
     <<"S", "y", "n", "o", "l", "o", "g", "y">>,
     <<"H", "P">>,
     <<"D", "e", "l", "l">>,
     <<"E", "s", "p", "r", "e", "s", "s", "i", "f">>,
     <<"T", "P", "-", "L", "i", "n", "k">>,
     <<"X", "i", "a", "o", "m", "i">>,
     <<"R", "a", "s", "p", "b", "e", "r", "r", "y", " ", "P", "i">>,
     <<"I", "n", "t", "e", "l">>}

\* the ports the rules test, out of COMMON_PORTS
RulePorts == {22, 23, 53, 80, 443, 445, 3389, 5000, 8008, 9100, 62078}

\* the devices: with a hostname of RuleHostnames, few vendors and port sets;
\* with no hostname or one that matches no rule, every vendor and up to
\* three open ports, the MAC being one lookup_vendor knows no vendor for;
\* and devices with the MACs of DeviceMacs, with and without a stored vendor
\* and a custom name; and the gateway devices of discover_devices, tagged
\* Router, with and without open ports.
RuleDevices ==
    LET mac == <<"F", "F", ":", "F", "F", ":", "F", "F", ":", "F", "F", ":", "F", "F", ":", "F", "F">>
        dev(h, v, open) ==
            [Device(mac, "192.168.1.10") EXCEPT
                !.hostname = h, !.vendor = v,
                !.services = HostServices(
                    [open |-> open,
                     read |-> [p \in {COMMON_PORTS[i] : i \in 1..CommonPortsLen} |-> None]], 1)]
    IN  {dev(Some(h), v, open) :
            h \in RuleHostnames,
            v \in {None, Some(<<"A", "p", "p", "l", "e">>)},
            open \in {{}, {22, 53, 80}}}
        \cup
        {dev(h, v, open) :
            h \in {None, Some(<<>>), Some(<<"t", "h", "e", "r", "m", "o", "s", "t", "a", "t">>)},
            v \in {None} \cup {Some(x) : x \in RuleVendors},
            open \in {o \in SUBSET RulePorts : Cardinality(o) <= 3}}
        \cup
        {[dev(h, v, open) EXCEPT !.mac_address = m, !.custom_name = c] :
            m \in DeviceMacs,
            h \in {None, Some(<<"t", "h", "e", "r", "m", "o", "s", "t", "a", "t">>)},
            v \in StoredVendors,
            c \in {None, Some(<<"d", "e", "n">>)},
            open \in {{}, {22}, {80, 11434}}}
        \cup
        {[dev(None, None, open) EXCEPT !.mac_address = m, !.device_type = "Router"] :
            m \in DeviceMacs,
            open \in {{}, {22}, {53, 80}, {80, 443}, {62078}}}

InitInfer ==
    /\ \E d \in RuleDevices :
          ident_trace = <<[d EXCEPT !.services = <<>>], d>>
    /\ ident_step = "scanned"
    /\ LookupUnused /\ ProbeUnused
    /\ CoordUnused /\ ScanUnused /\ PortUnused /\ DiscUnused
    /\ ListUnused /\ DbUnused /\ UiUnused

SpecInfer == InitInfer /\ [][identify_device]_vars

\* ------------------------------------------------------------------------
\* The cascade of infer_device_type
\* ------------------------------------------------------------------------
\* some word of the set occurs in the string
HasAny(str, ws) == \E w \in ws : Contains(str, w)

\* the rules in the documented order, each with its type and whether it
\* matches the lower-cased hostname h, the lower-cased vendor v and the open
\* ports
DocumentedRules(h, v, ports) ==
    LET apple == Contains(v, <<"a", "p", "p", "l", "e">>)
        ssh   == 22 \in ports
        http  == 80 \in ports \/ 443 \in ports
    IN
    << \* hostname rules
       [type |-> "SmartTV",
        when |-> HasAny(h, {<<"t", "v">>, <<"w", "e", "b", "o", "s">>, <<"r", "o", "k", "u">>, <<"f", "i", "r", "e", "t", "v">>, <<"c", "h", "r", "o", "m", "e", "c", "a", "s", "t">>, <<"a", "n", "d", "r", "o", "i", "d", "t", "v">>})],
       [type |-> "GameConsole",
        when |-> \/ HasAny(h, {<<"x", "b", "o", "x">>, <<"p", "l", "a", "y", "s", "t", "a", "t", "i", "o", "n">>, <<"p", "s", "4">>, <<"p", "s", "5">>, <<"n", "i", "n", "t", "e", "n", "d", "o">>})
                 \/ Contains(h, <<"s", "w", "i", "t", "c", "h">>) /\ ~Contains(h, <<"s", "w", "i", "t", "c", "h", "b", "o", "t">>)],
       [type |-> "Phone",
        when |-> HasAny(h, {<<"i", "p", "h", "o", "n", "e">>, <<"i", "p", "a", "d">>})],
       [type |-> "Computer",
        when |-> \/ HasAny(h, {<<"m", "a", "c", "b", "o", "o", "k">>, <<"i", "m", "a", "c">>, <<"-", "m", "b", "p">>, <<"m", "a", "c", "-">>, <<"d", "e", "s", "k", "t", "o", "p">>, <<"l", "a", "p", "t", "o", "p">>, <<"-", "p", "c">>, <<"w", "o", "r", "k", "s", "t", "a", "t", "i", "o", "n">>, <<"c", "a", "c", "h", "y", "o", "s">>, <<"u", "b", "u", "n", "t", "u">>, <<"f", "e", "d", "o", "r", "a">>, <<"a", "r", "c", "h">>, <<"d", "e", "b", "i", "a", "n">>, <<"l", "i", "n", "u", "x">>})
                 \/ h = <<"m", "a", "c">>],
       [type |-> "IoT",
        when |-> HasAny(h, {<<"y", "e", "e", "l", "i", "n", "k">>, <<"y", "e", "e", "l", "i", "g", "h", "t">>, <<"s", "w", "i", "t", "c", "h", "b", "o", "t">>, <<"s", "h", "e", "l", "l", "y">>, <<"t", "a", "s", "m", "o", "t", "a">>, <<"t", "u", "y", "a">>, <<"s", "o", "n", "o", "f", "f">>, <<"e", "s", "p", "_">>, <<"e", "s", "p", "3", "2">>, <<"e", "s", "p", "8", "2", "6", "6">>, <<"w", "l", "e", "d">>})],
       [type |-> "Printer",
        when |-> HasAny(h, {<<"p", "r", "i", "n", "t", "e", "r">>, <<"b", "r", "w">>, <<"b", "r", "o", "t", "h", "e", "r">>, <<"e", "p", "s", "o", "n">>, <<"c", "a", "n", "o", "n">>, <<"h", "p", "-">>})],
       [type |-> "NAS",
        when |-> HasAny(h, {<<"n", "a", "s">>, <<"s", "y", "n", "o", "l", "o", "g", "y">>, <<"q", "n", "a", "p">>, <<"d", "i", "s", "k", "s", "t", "a", "t", "i", "o", "n">>})],
       [type |-> "Router",
        when |-> HasAny(h, {<<"r", "o", "u", "t", "e", "r">>, <<"g", "a", "t", "e", "w", "a", "y">>, <<"-", "a", "p">>, <<"u", "n", "i", "f", "i">>, <<"e", "e", "r", "o">>, <<"o", "r", "b", "i">>})],
       \* port and vendor rules
       [type |-> "Router", when |-> 53 \in ports /\ http],
       [type |-> "Phone", when |-> 62078 \in ports /\ apple],
       [type |-> IF ssh \/ 548 \in ports THEN "Computer" ELSE "Phone",
        when |-> apple],
       [type |-> "SmartTV",
        when |-> \/ ports \cap {8008, 8009, 9197} # {}
                 \/ HasAny(v, {<<"s", "a", "m", "s", "u", "n", "g">>, <<"l", "g">>}) /\ ~ssh
                 \/ HasAny(v, {<<"r", "o", "k", "u">>, <<"s", "o", "n", "o", "s">>})],
       [type |-> "GameConsole",
        when |-> \/ Contains(v, <<"n", "i", "n", "t", "e", "n", "d", "o">>)
                 \/ Contains(v, <<"s", "o", "n", "y">>) /\ ~ssh],
       [type |-> "NAS",
        when |-> \/ /\ ports \cap {22, 23} # {}
                    /\ ports \cap {445, 548} # {}
                    /\ ports \cap {5000, 5001} # {}
                 \/ HasAny(v, {<<"s", "y", "n", "o", "l", "o", "g", "y">>, <<"q", "n", "a", "p">>})],
       [type |-> "Printer",
        when |-> \/ ports \cap {9100, 631} # {}
                 \/ Contains(v, <<"h", "p">>) /\ 80 \in ports /\ ~ssh],
       [type |-> IF HasAny(v, {<<"d", "e", "l", "l">>, <<"l", "e", "n", "o", "v", "o">>, <<"h", "p">>})
                 THEN "Laptop" ELSE "Computer",
        when |-> ssh \/ 3389 \in ports],
       [type |-> "IoT",
        when |-> HasAny(v, {<<"e", "s", "p", "r", "e", "s", "s", "i", "f">>, <<"a", "m", "a", "z", "o", "n">>})],
       [type |-> "Router",
        when |-> HasAny(v, {<<"t", "p", "-", "l", "i", "n", "k">>, <<"n", "e", "t", "g", "e", "a", "r">>, <<"a", "s", "u", "s">>, <<"u", "b", "i", "q", "u", "i", "t", "i">>, <<"c", "i", "s", "c", "o">>}) /\ http],
       [type |-> "Phone",
        when |-> HasAny(v, {<<"s", "a", "m", "s", "u", "n", "g">>, <<"x", "i", "a", "o", "m", "i">>, <<"g", "o", "o", "g", "l", "e">>, <<"h", "u", "a", "w", "e", "i">>})],
       [type |-> "Computer",
        when |-> Contains(v, <<"r", "a", "s", "p", "b", "e", "r", "r", "y">>)] >>

\* the type of the first rule that matches, Unknown when none does
FirstMatch(rules) ==
    LET matching == {i \in 1..Len(rules) : rules[i].when}
    IN  IF matching = {} THEN "Unknown"
        ELSE rules[CHOOSE i \in matching : \A j \in matching : i <= j].type

\* C27: ordered cascade: for every hostname, vendor and set of open ports
\* infer_device_type gives the type of the first rule that matches, in the
\* documented order (the hostname rules, then the port and vendor rules),
\* and Unknown when no rule matches; it gives a type for every device.
OrderedCascade ==
    ident_step = "identified" =>
        LET d == IdentifiedOnce
            v == ToLowercase(IF d.vendor # None THEN Unwrap(d.vendor) ELSE <<>>)
        IN  /\ d.device_type
                  = FirstMatch(DocumentedRules(LowerHostname(d), v, OpenPorts(d)))
            /\ d.device_type \in {"Router", "Computer", "Laptop", "Phone",
                                   "SmartTV", "GameConsole", "NAS", "Printer",
                                   "IoT", "Unknown"}

\* a Samsung device with SSH open and no hostname matches the SSH rule and
\* the phone-vendor rule: it is a Computer
OrderedCascadeWitness ==
    /\ ident_step = "identified"
    /\ IdentifiedOnce.hostname = None
    /\ IdentifiedOnce.vendor = Some(<<"S", "a", "m", "s", "u", "n", "g">>)
    /\ OpenPorts(IdentifiedOnce) = {22}
    /\ IdentifiedOnce.device_type = "Computer"

\* ------------------------------------------------------------------------
\* The gateway and the MAC addresses of the discovered devices
\* ------------------------------------------------------------------------
\* discover_devices returned a list
DiscoveryOk == discovered # None /\ Unwrap(discovered).result.ok

\* the devices parse_arp_cache made of the ARP table
ArpDerived == ParseArpLines(arp_table.value, <<>>, {})

\* the gateway is resolved and no device of the ARP table has its address
GatewayMissing ==
    /\ route_table.value # None
    /\ \A k \in 1..Len(ArpDerived) :
          ArpDerived[k].ip_address # Unwrap(route_table.value)

\* the list out is the list devs followed by one device with the gateway's
\* address and the type Router
OneRouterAdded(out, devs) ==
    /\ Len(out) = Len(devs) + 1
    /\ out[Len(out)].ip_address = Unwrap(route_table.value)
    /\ out[Len(out)].device_type = "Router"
    /\ \A k \in 1..Len(devs) : out[k].ip_address = devs[k].ip_address

\* the list out is the list devs, but for the hostname of the devices with
\* the host's own address
SameButLabel(out, devs) ==
    /\ Len(out) = Len(devs)
    /\ \A k \in 1..Len(devs) :
          \/ out[k] = devs[k]
          \/ /\ devs[k].ip_address = local_info.value
             /\ out[k] = [devs[k] EXCEPT
                             !.hostname = Some(<<"T", "h", "i", "s", " ", "d", "e", "v", "i", "c", "e">>)]

\* C28 as stated: gateway insertion: when a gateway is resolved and no
\* discovered device has its address, the returned list has exactly one
\* more device, with that address and the type Router; when a device with
\* the gateway's address is present no device is added; when no gateway is
\* found the ARP-derived list is returned unchanged.
GatewayInsertion ==
    DiscoveryOk =>
        IF route_table.value = None THEN Discovered = ArpDerived
        ELSE IF GatewayMissing THEN OneRouterAdded(Discovered, ArpDerived)
        ELSE Len(Discovered) = Len(ArpDerived)

\* C28 amended: the same, the returned devices being those of the ARP table
\* but for the hostname of the host's own device: when no gateway is found,
\* or a device with its address is present, the ARP-derived list is returned
\* with nothing but that label changed; when the gateway is missing, that
\* list is followed by one device with the gateway's address and the type
\* Router.
GatewayInsertionAmended ==
    DiscoveryOk =>
        IF route_table.value # None /\ GatewayMissing
        THEN /\ OneRouterAdded(Discovered, ArpDerived)
             /\ SameButLabel(SubSeq(Discovered, 1, Len(ArpDerived)), ArpDerived)
        ELSE SameButLabel(Discovered, ArpDerived)

\* a gateway that no line of the ARP table names is added after two devices
GatewayInsertionWitness ==
    /\ DiscoveryOk
    /\ route_table.value # None
    /\ GatewayMissing
    /\ Len(ArpDerived) = 2
    /\ Len(Discovered) = 3
    /\ Discovered[3].device_type = "Router"

\* the characters of a MAC address in canonical form
UpperHexDigits ==
    {"0", "1", "2", "3", "4", "5", "6", "7", "8", "9",
     "A", "B", "C", "D", "E", "F"}

\* a MAC address in canonical form: hex digits in upper case (two of them
\* here, for the six colon-separated pairs)
IsCanonicalMac(mac) ==
    /\ Len(mac) = 2
    /\ \A k \in 1..Len(mac) : mac[k] \in UpperHexDigits

\* C29: every device discover_devices returns, the gateway device added from
\* the targeted ARP lookup included, has its MAC address in canonical
\* upper-case colon-separated form.
CanonicalMacs ==
    DiscoveryOk =>
        \A k \in 1..Len(Discovered) : IsCanonicalMac(Discovered[k].mac_address)

\* the same for the devices taken from the ARP table alone
CanonicalMacsOfArpDevices ==
    DiscoveryOk =>
        \A k \in 1..Len(ArpDerived) : IsCanonicalMac(Discovered[k].mac_address)

\* the broadcast address and the placeholder, in any letter case
IsBroadcastOrIncomplete(mac) ==
    ToUppercase(mac) \in {ToUppercase(BroadcastMac), ToUppercase(IncompleteMac)}

\* C30: no device discover_devices returns carries the broadcast MAC address
\* (in any letter case) or the placeholder of an incomplete entry: every ARP
\* line with such a MAC is discarded.
NoBroadcastOrIncomplete ==
    DiscoveryOk =>
        \A k \in 1..Len(Discovered) :
            ~IsBroadcastOrIncomplete(Discovered[k].mac_address)

\* the same for the devices taken from an ARP table that writes the
\* broadcast address in lower case
LowercaseBroadcastDiscarded ==
    (DiscoveryOk /\ \A h \in 1..Len(arp_table.value) :
                       arp_table.value[h].mac # ToUppercase(BroadcastMac)) =>
        \A k \in 1..Len(ArpDerived) :
            ~IsBroadcastOrIncomplete(Discovered[k].mac_address)

\* ------------------------------------------------------------------------
\* The services a port scan records
\* ------------------------------------------------------------------------
\* the entries of a service list for one port
EntriesFor(services, port) == {k \in 1..Len(services) : services[k].port = port}

\* every entry is an open TCP port of the port list, with one entry for
\* every position of the list whose connect succeeded and none for another
ServicesOfProbes(services, ports, probes) ==
    /\ \A k \in 1..Len(services) :
          /\ services[k].state = "Open"
          /\ services[k].protocol = "Tcp"
          /\ \E p \in 1..Len(ports) : ports[p] = services[k].port
    /\ \A p \in 1..Len(ports) :
          Cardinality(EntriesFor(services, ports[p]))
             = IF probes[p] = "connected" THEN 1 ELSE 0

\* C31: services invariant: after a port scan every entry of a device's
\* services has state Open and protocol TCP, its port belongs to the scanned
\* port list, and there is exactly one entry for each port on which the
\* connect to the device succeeded and none for any other port.
ServicesInvariant ==
    scan_result # None =>
        \A i \in 1..Len(scan_devices) :
            ServicesOfProbes(scan_devices[i].services, COMMON_PORTS,
                             task[i].probes)

\* the same, for the device lists in which no two devices share a MAC
ServicesInvariantDistinctMacs == DistinctMacs => ServicesInvariant

\* the same for the list scan_device_ports returns, for every list of
\* distinct ports
ServicesOfPortList ==
    (/\ port_list_result # None
     /\ \A p, q \in 1..Len(port_list) : port_list[p] = port_list[q] => p = q) =>
        \E probes \in [1..Len(port_list) -> ConnectOutcome] :
            /\ Unwrap(port_list_result) = ScanDevicePorts(port_list, probes)
            /\ ServicesOfProbes(Unwrap(port_list_result).value, port_list, probes)

\* ------------------------------------------------------------------------
\* Specification of scan_port on streams that send up to 256 bytes
\* ------------------------------------------------------------------------
\* the size of the buffer of grab_banner
BANNER_BUF_LEN == 256

\* what a stream sends into the buffer: nothing, or a beginning, a run of
\* one letter and an end, with blanks and dropped bytes at either side and
\* around the 200th character
LongReads ==
    LET run(k) == [i \in 1..k |-> "a"]
    IN  {None} \cup
        {Some(lead \o run(k) \o tail) :
            lead \in {<<>>, <<" ">>, <<"~">>, <<"\t", "~", " ">>},
            k \in {0, 1, 2, BANNER_MAX_CHARS - 2, BANNER_MAX_CHARS - 1,
                   BANNER_MAX_CHARS, BANNER_MAX_CHARS + 1,
                   BANNER_BUF_LEN - 8},
            tail \in {<<>>, <<" ">>, <<"~">>, <<"b">>, <<" ", "b">>,
                      <<"\r", "\n">>, <<" ", "~", "b", " ">>,
                      <<"~", " ", " ", "b", "c">>}}

InitBanner ==
    /\ probe_port \in {22, 80}
    /\ probe_banner \in LongReads
    /\ probe_service = None
    /\ LookupUnused /\ PipelineUnused
    /\ CoordUnused /\ ScanUnused /\ PortUnused /\ DiscUnused
    /\ ListUnused /\ DbUnused /\ UiUnused

SpecBanner == InitBanner /\ [][scan_port]_vars

\* ------------------------------------------------------------------------
\* The banner scan_port stores
\* ------------------------------------------------------------------------
\* the characters of the read that are printable ASCII or whitespace, in
\* their order, up to the 200th
KeptChars ==
    LET kept == SelectSeq(Unwrap(probe_banner), LAMBDA c : c # "~")
    IN  SubSeq(kept, 1, Min(Len(kept), BANNER_MAX_CHARS))

\* C32: banner sanitization: the banner stored on a service is made of the
\* printable-ASCII and whitespace characters of the received bytes in their
\* order (of the first 200 of them, without the whitespace before the first
\* and after the last printable one), so it has at most 200 characters and
\* neither leading nor trailing whitespace; when nothing remains, or
\* nothing was read, the service has no banner rather than an empty one.
BannerSanitized ==
    probe_service # None =>
        LET b == Unwrap(probe_service).banner
        IN  IF probe_banner = None
               \/ \A k \in 1..Len(KeptChars) : IsWhitespace(KeptChars[k])
            THEN b = None
            ELSE /\ b # None
                 /\ Unwrap(b) # <<>>
                 /\ Len(Unwrap(b)) <= BANNER_MAX_CHARS
                 /\ ~IsWhitespace(Unwrap(b)[1])
                 /\ ~IsWhitespace(Unwrap(b)[Len(Unwrap(b))])
                 /\ LET printable == {k \in 1..Len(KeptChars) :
                                         ~IsWhitespace(KeptChars[k])}
                        i == CHOOSE k \in printable : \A h \in printable : k <= h
                        j == CHOOSE k \in printable : \A h \in printable : h <= k
                    IN  Unwrap(b) = SubSeq(KeptChars, i, j)

\* of 199 letters, a blank and a letter, the 199 letters are stored: the
\* blank is the 200th character and is trimmed
BannerSanitizedWitness ==
    /\ probe_service # None
    /\ probe_banner # None
    /\ Len(Unwrap(probe_banner)) = BANNER_MAX_CHARS + 1
    /\ Unwrap(probe_banner)[BANNER_MAX_CHARS] = " "
    /\ Unwrap(probe_service).banner # None
    /\ Len(Unwrap(Unwrap(probe_service).banner)) = BANNER_MAX_CHARS - 1

\* ------------------------------------------------------------------------
\* What identify_device changes
\* ------------------------------------------------------------------------
\* C33: identify_device changes only vendor, device_type and
\* detected_agents: mac_address, ip_address, hostname, custom_name and
\* services are left as they were, a vendor that is set is never
\* overwritten, and a vendor that is not set is looked up from the MAC.
IdentifyFrame ==
    \A k \in 3..Len(ident_trace) :
        LET before == ident_trace[k - 1]
            after  == ident_trace[k]
        IN  /\ \A f \in DOMAIN before \ {"vendor", "device_type", "detected_agents"} :
                  after[f] = before[f]
            /\ before.vendor # None => after.vendor = before.vendor
            /\ before.vendor = None => after.vendor = LookupVendor(before.mac_address)

\* a device with an Apple MAC, the stored vendor HP, a custom name and open
\* ports keeps them through identify_device
IdentifyFrameWitness ==
    /\ ident_step = "identified"
    /\ LookupVendor(ident_trace[2].mac_address) = Some(<<"A", "p", "p", "l", "e">>)
    /\ ident_trace[2].vendor = Some(<<"H", "P">>)
    /\ ident_trace[2].custom_name # None
    /\ ident_trace[2].services # <<>>
    /\ IdentifiedOnce.vendor = Some(<<"H", "P">>)
    /\ IdentifiedOnce.custom_name = ident_trace[2].custom_name

\* ------------------------------------------------------------------------
\* Whose results a device's services are
\* ------------------------------------------------------------------------
\* C34: correct attribution of scan results: after scan_devices_ports each
\* device's services are the results of probing that device's own address
\* (the result of the task spawned for it), for every device list, the
\* lists in which two devices of a chunk carry the same MAC included.
CorrectAttribution ==
    scan_result # None =>
        \A i \in 1..Len(scan_devices) :
            (task[i].result.ok /\ task[i].result.value.ok) =>
                scan_devices[i].services = task[i].result.value.value

\* the same, for the device lists in which no two devices share a MAC
CorrectAttributionDistinctMacs == DistinctMacs => CorrectAttribution

\* ------------------------------------------------------------------------
\* The Router tag of the gateway device
\* ------------------------------------------------------------------------
\* C36: the Router tag that discovery forces on the default-gateway device
\* is preserved through the pipeline: the device discovery tagged Router
\* still has the type Router after identify_device, whatever its hostname,
\* vendor and open ports are.
RouterTagPreserved ==
    \A k \in 3..Len(ident_trace) :
        ident_trace[1].device_type = "Router"
            => ident_trace[k].device_type = "Router"

\* the tag is kept where infer_device_type itself finds a router: DNS with
\* HTTP(S), or a router vendor with HTTP(S)
RouterTagOfRouterPorts ==
    \A k \in 3..Len(ident_trace) :
        (/\ ident_trace[1].device_type = "Router"
         /\ 53 \in OpenPorts(ident_trace[2])
         /\ 80 \in OpenPorts(ident_trace[2]))
            => ident_trace[k].device_type = "Router"

\* ------------------------------------------------------------------------
\* The order in which the coordinator receives the events
\* ------------------------------------------------------------------------
\* the events the receiver of the current scan has taken, oldest first
Received == [k \in 1..Len(log) |-> log[k].ev]

DevicesFramed ==
    /\ Len(scan_devices') = Len(scan_devices)
    /\ \A i \in 1..Len(scan_devices) :
          \A f \in DOMAIN scan_devices[i] \ {"services"} :
              scan_devices'[i][f] = scan_devices[i][f]

\* a step leaves the services of the devices whose task has not succeeded
\* as they are
FailedKeepServices ==
    \A i \in 1..Len(scan_devices) :
        ~(task'[i].status = "finished" /\ task'[i].result.ok
                                       /\ task'[i].result.value.ok)
            => scan_devices'[i].services = scan_devices[i].services

\* C38: scan_devices_ports changes nothing but services: the number, order,
\* mac_address, ip_address, hostname, vendor, device_type and custom_name of
\* the devices stay as they are in every step, and a device whose scan task
\* fails keeps the services it had.
ScanChangesServicesOnly == [][DevicesFramed /\ FailedKeepServices]_vars

\* the first half alone
ScanFrame == [][DevicesFramed]_vars

\* the whole, for the device lists in which no two devices share a MAC
ScanChangesServicesOnlyDistinctMacs ==
    [][DistinctMacs => (DevicesFramed /\ FailedKeepServices)]_vars

\* ------------------------------------------------------------------------
\* The device view: selection, rename dialog, custom names
\* ------------------------------------------------------------------------
\* largest number of devices a scan finds in the device view model
MaxUiDevices == 2
\* largest number of characters typed into the rename dialog
MaxNameLen == 1
\* rename_input_char: if self.rename_input.len() < 32
RENAME_INPUT_MAX == 32

UiMacs == 1..MaxUiDevices

\* the characters typed
NameChars == {"x"}

\* App::new with a database whose devices table is empty
InitUi ==
    /\ CoordInit
    /\ selected_device_index = 0
    /\ show_rename_dialog = FALSE
    /\ rename_input = <<>>
    /\ custom_names = <<>>
    /\ db = Some([m \in UiMacs |-> None])
    /\ panicked = FALSE
    /\ renamed = [m \in UiMacs |-> None]
    /\ ScanUnused /\ PortUnused /\ DiscUnused /\ IdentUnused
    /\ ListUnused /\ DbUnused

device_navigate_up ==
    /\ devices.len # 0 /\ selected_device_index > 0
    /\ selected_device_index' = selected_device_index - 1
    /\ UNCHANGED <<show_rename_dialog, rename_input, custom_names, db,
                   panicked, renamed>>
    /\ UNCHANGED <<coordVars, scanVars, portVars, discVars, identVars,
                   listVars, dbVars>>

device_navigate_down ==
    /\ devices.len # 0 /\ selected_device_index < devices.len - 1
    /\ selected_device_index' = selected_device_index + 1
    /\ UNCHANGED <<show_rename_dialog, rename_input, custom_names, db,
                   panicked, renamed>>
    /\ UNCHANGED <<coordVars, scanVars, portVars, discVars, identVars,
                   listVars, dbVars>>

\* &self.devices[self.selected_device_index] panics when the index is not
\* below the length
start_rename_device ==
    /\ devices.len # 0
    /\ IF selected_device_index < devices.len
       THEN LET custom_name == custom_names[selected_device_index + 1]
            IN  /\ rename_input' = IF custom_name = None THEN <<>>
                                   ELSE Unwrap(custom_name)
                /\ show_rename_dialog' = TRUE
                /\ UNCHANGED panicked
       ELSE /\ panicked' = TRUE
            /\ UNCHANGED <<rename_input, show_rename_dialog>>
    /\ UNCHANGED <<selected_device_index, custom_names, db, renamed>>
    /\ UNCHANGED <<coordVars, scanVars, portVars, discVars, identVars,
                   listVars, dbVars>>

cancel_rename ==
    /\ show_rename_dialog' = FALSE
    /\ rename_input' = <<>>
    /\ UNCHANGED <<selected_device_index, custom_names, db, panicked,
                   renamed>>
    /\ UNCHANGED <<coordVars, scanVars, portVars, discVars, identVars,
                   listVars, dbVars>>

\* Database::update_device_name: UPDATE devices SET custom_name = ? WHERE
\* mac_address = ?
update_device_name(mac, name) ==
    IF db = None THEN None
    ELSE Some([m \in DOMAIN Unwrap(db) |->
                 IF m = mac /\ Unwrap(db)[m] # None THEN Some(Some(name))
                 ELSE Unwrap(db)[m]])

confirm_rename ==
    /\ IF devices.len # 0 /\ rename_input # <<>>
       THEN IF selected_device_index < devices.len
            THEN LET mac == selected_device_index + 1
                 IN  /\ custom_names' = [custom_names EXCEPT
                                            ![mac] = Some(rename_input)]
                     /\ db' = update_device_name(mac, rename_input)
                     /\ renamed' = [renamed EXCEPT ![mac] = Some(rename_input)]
                     /\ show_rename_dialog' = FALSE
                     /\ rename_input' = <<>>
                     /\ UNCHANGED panicked
            ELSE /\ panicked' = TRUE
                 /\ UNCHANGED <<custom_names, db, renamed, show_rename_dialog,
                                rename_input>>
       ELSE /\ show_rename_dialog' = FALSE
            /\ rename_input' = <<>>
            /\ UNCHANGED <<custom_names, db, renamed, panicked>>
    /\ UNCHANGED selected_device_index
    /\ UNCHANGED <<coordVars, scanVars, portVars, discVars, identVars,
                   listVars, dbVars>>

rename_input_char(c) ==
    /\ Len(rename_input) < RENAME_INPUT_MAX
    /\ Len(rename_input) < MaxNameLen
    /\ rename_input' = Append(rename_input, c)
    /\ UNCHANGED <<selected_device_index, show_rename_dialog, custom_names,
                   db, panicked, renamed>>
    /\ UNCHANGED <<coordVars, scanVars, portVars, discVars, identVars,
                   listVars, dbVars>>

rename_input_backspace ==
    /\ rename_input # <<>>
    /\ rename_input' = SubSeq(rename_input, 1, Len(rename_input) - 1)
    /\ UNCHANGED <<selected_device_index, show_rename_dialog, custom_names,
                   db, panicked, renamed>>
    /\ UNCHANGED <<coordVars, scanVars, portVars, discVars, identVars,
                   listVars, dbVars>>

\* the rows of the devices table; persist_devices inserts the devices of a
\* list in list order, and the rows are taken in that order
StoredMacs == {m \in DOMAIN Unwrap(db) : Unwrap(db)[m] # None}

load_devices_from_db ==
    /\ db # None
    /\ devices' = DeviceList(0, Cardinality(StoredMacs))
    /\ custom_names' = [m \in 1..Cardinality(StoredMacs) |->
                           Unwrap(Unwrap(db)[m])]
    /\ UNCHANGED <<device_scan_progress, device_scan_receiver,
                   status_message, SCANNED_DEVICES, thread, progress_chan,
                   std_chan, emitted, log, cancelled, discarded, delivered>>
    /\ UNCHANGED <<selected_device_index, show_rename_dialog, rename_input,
                   db, panicked, renamed>>
    /\ UNCHANGED <<scanVars, portVars, discVars, identVars, listVars,
                   dbVars>>

\* the keys of the NetworkDevices view go to the rename dialog while it is
\* shown, else Esc alone cancels a running scan, else they navigate, start a
\* scan or open the dialog
DialogKeys == ~panicked /\ show_rename_dialog

ScanningKeys ==
    ~panicked /\ ~show_rename_dialog /\ device_scan_progress # None

IdleKeys == ~panicked /\ ~show_rename_dialog /\ device_scan_progress = None

\* the main loop (keys, ticks and load_devices_from_db at any time) and the
\* scan threads, until the main thread panics
NextUi ==
    \/ IdleKeys /\ device_navigate_up
    \/ IdleKeys /\ device_navigate_down
    \/ IdleKeys /\ start_device_scan
    \/ IdleKeys /\ start_rename_device
    \/ ScanningKeys /\ cancel_device_scan
    \/ DialogKeys /\ confirm_rename
    \/ DialogKeys /\ cancel_rename
    \/ DialogKeys /\ rename_input_backspace
    \/ DialogKeys /\ \E c \in NameChars : rename_input_char(c)
    \/ ~panicked /\ check_device_scan_progress
    \/ ~panicked /\ load_devices_from_db
    \/ ~panicked /\ \E id \in ScanIds : ThreadDiscoveryStart(id)
    \/ ~panicked /\ \E id \in ScanIds :
                       \E n \in UiMacs : ThreadDiscoveryFound(id, n)
    \/ ~panicked /\ \E id \in ScanIds : ThreadPortScan(id)
    \/ ~panicked /\ \E id \in ScanIds : ThreadIdentify(id)
    \/ ~panicked /\ \E id \in ScanIds : ThreadComplete(id)
    \/ ~panicked /\ \E id \in ScanIds : ThreadStore(id)
    \/ ~panicked /\ \E id \in ScanIds : ThreadExit(id)
    \/ ~panicked /\ \E id \in ScanIds : Forward(id)

SpecUi == InitUi /\ [][NextUi]_vars

\* the selection is a device of the list
IndexInBounds == selected_device_index < devices.len

\* C35: whenever the device list is not empty, selected_device_index is
\* below its length, so that start_rename_device and confirm_rename index a
\* device of the list and the main thread does not panic.
SelectionInBounds ==
    /\ devices.len # 0 => IndexInBounds
    /\ ~panicked

\* device_navigate_up, device_navigate_down and the rename dialog keep the
\* index in bounds: every step that leaves the device list as long as it
\* was, or makes it longer, does
NavigationInBounds ==
    [][IndexInBounds /\ devices'.len >= devices.len
           => selected_device_index' < devices'.len]_vars

\* C39: a device of app.devices whose MAC confirm_rename has given a custom
\* name carries that name, also after later completed scans have replaced
\* the list.
CustomNameSurvivesRescan ==
    \A m \in 1..devices.len :
        renamed[m] # None => custom_names[m] = renamed[m]

\* the devices table keeps the name: persist_devices writes custom_name as
\* COALESCE(new, stored)
StoredNameSurvives ==
    \A m \in UiMacs :
        renamed[m] # None => Unwrap(db)[m] = Some(renamed[m])

\* a custom name in app.devices is the name confirm_rename gave: the scan
\* never derives one
CustomNameNeverDerived ==
    /\ Len(custom_names) = devices.len
    /\ \A m \in 1..devices.len :
          custom_names[m] # None => custom_names[m] = renamed[m]

====
